---- MODULE Spec2Model ----
(***************************************************************************)
(* BalanceChain (biovaultsoftware/POSnos): the chain engine of src/src and *)
(* its collaborators, as a state machine.                                  *)
(*                                                                         *)
(* Persisted state is the IndexedDB database (stores state_chain,          *)
(* sync_log, messages, meta, caps); in-memory state is the StateManager    *)
(* projections, the CapsTracker cache and the application context.         *)
(* Every `await` on a database request is a point where another async call *)
(* may run, so an async function is a sequence of steps, one per database  *)
(* round trip.                                                             *)
(*                                                                         *)
(* Time is a pair [d, ms]: days since 1970-01-01 UTC and milliseconds in   *)
(* that day (a millisecond count of a calendar date does not fit TLC's     *)
(* integers).                                                              *)
(***************************************************************************)
EXTENDS Integers, Sequences, FiniteSets, TLC

\* ------------------------------------------------------------------------
\* Bounds of the model
\* ------------------------------------------------------------------------
\* number of commitAction / incrementCaps calls in a run
MaxCalls == 2
\* number of other API calls (legacy append, cleanup, latch, scan, restart, caps read)
MaxOps == 2
\* number of clock reads in a run that see the clock advanced
MaxTicks == 1
\* the random nonces createSegment may draw are 1..MaxNonce
MaxNonce == 2
\* capsule ids are 1..MaxCapsules
MaxCapsules == 2
\* chain lengths of the backups and chain states handed to the restore check are 0..MaxLen
MaxLen == 3
\* WebSocket objects of the signal client alive at one time
MaxSockets == 2
\* messages handed to the signal client's send in a run
MaxMsgs == 2
\* connection attempts are begun while reconnectAttempts is below MaxAttempts
MaxAttempts == 6

\* ------------------------------------------------------------------------
\* Protocol constants (constants.js)
\* ------------------------------------------------------------------------
DAILY_CAP == 3600
MONTHLY_CAP == 36000
YEARLY_CAP == 120000
MIN_BLOCK_INTERVAL_MS == 1000
MIN_RICH_SCORE == 70
TVM_PER_CAPSULE == 1
UTC_TOLERANCE_MS == 720000
MS_PER_DAY == 86400000
\* NONCE_CLEANUP_AGE_MS, in days
NONCE_CLEANUP_AGE_DAYS == 30
GENESIS_HASH == <<"GENESIS">>
RECONNECT_BASE_DELAY == 1000
RECONNECT_MAX_DELAY == 30000
HEARTBEAT_INTERVAL == 30000
HEARTBEAT_TIMEOUT == 10000
MESSAGE_TYPES == {"chat.user", "ai.advice", "biz.decision", "biz.outcome", "chat.append"}
STA_TYPES == MESSAGE_TYPES \cup {"capsule.mint", "tvm.transfer"}

\* ------------------------------------------------------------------------
\* Time and the UTC calendar (Date.now, Date.setUTC*)
\* ------------------------------------------------------------------------
Time(d, ms) == [d |-> d, ms |-> ms]

\* a <= b
TimeLE(a, b) == a.d < b.d \/ (a.d = b.d /\ a.ms <= b.ms)

\* a + k milliseconds, 0 <= k < MS_PER_DAY
TimeAdd(a, k) ==
  IF a.ms + k >= MS_PER_DAY THEN Time(a.d + 1, a.ms + k - MS_PER_DAY)
  ELSE Time(a.d, a.ms + k)

\* a - b < k milliseconds, 0 <= k < MS_PER_DAY
DiffLess(a, b, k) ==
  IF a.d - b.d >= 2 THEN FALSE
  ELSE IF a.d - b.d <= -2 THEN TRUE
  ELSE (a.d - b.d) * MS_PER_DAY + (a.ms - b.ms) < k

IsLeap(y) == (y % 4 = 0 /\ y % 100 # 0) \/ y % 400 = 0
DaysInYear(y) == IF IsLeap(y) THEN 366 ELSE 365
DaysInMonth(y, m) ==
  IF m = 2 THEN (IF IsLeap(y) THEN 29 ELSE 28)
  ELSE IF m \in {4, 6, 9, 11} THEN 30 ELSE 31

\* the civil date (year, month 1..12, day-of-month 1..) of day number d
RECURSIVE CivilFrom(_, _, _)
CivilFrom(y, m, rest) ==
  IF rest >= DaysInYear(y) /\ m = 1 THEN CivilFrom(y + 1, 1, rest - DaysInYear(y))
  ELSE IF rest >= DaysInMonth(y, m) THEN CivilFrom(y, m + 1, rest - DaysInMonth(y, m))
  ELSE [y |-> y, m |-> m, dom |-> rest + 1]
Civil(d) == CivilFrom(1970, 1, d)

\* Date: setUTCHours(24,0,0,0) -- the midnight that ends the current UTC day
getNextDailyReset(now) == Time(now.d + 1, 0)

\* Date: setUTCMonth(m+1, 1); setUTCHours(0,0,0,0) -- the first of next month
getNextMonthlyReset(now) ==
  LET c == Civil(now.d) IN
  Time(now.d - (c.dom - 1) + DaysInMonth(c.y, c.m), 0)

\* Date: setUTCFullYear(y+1, 0, 1); setUTCHours(0,0,0,0) -- Jan 1 of next year
RECURSIVE DaysLeftInYear(_, _, _)
DaysLeftInYear(y, m, dom) ==
  IF m = 12 THEN DaysInMonth(y, 12) - (dom - 1)
  ELSE DaysInMonth(y, m) - (dom - 1) + DaysLeftInYear(y, m + 1, 1)
getNextYearlyReset(now) ==
  LET c == Civil(now.d) IN Time(now.d + DaysLeftInYear(c.y, c.m, c.dom), 0)

\* ------------------------------------------------------------------------
\* Identity, signing and hashing (crypto.js, segment.js)
\* ------------------------------------------------------------------------
HID == "HID-A"
OTHER_HID == "HID-B"
\* the public key (pubJwk) of an identity; the private key is its pair
PubKeyOf(hid) == <<"pub", hid>>

NoRef == "null"
\* an absent unlocker/unlocked reference; a present one is <<seq, nonce>>
NoSegRef == <<>>
\* the absent `head` of a result that is not ok
NoHead == <<>>

\* getSignableContent: the canonical form of the segment minus its signature
getSignableContent(seg) == [f \in (DOMAIN seg) \ {"signature"} |-> seg[f]]

\* sign(privateKey, signable): only the holder of the key pair of `hid`
\* produces this value; any other signature string is a forgery
sign(hid, signable) == <<"sig", PubKeyOf(hid), signable>>
FORGED_SIG == <<"forged">>

\* a verification that checks the key of the signature and not the content
verify_keyOnly(pubJwk, signable, signature) ==
  Len(signature) = 3 /\ signature[1] = "sig" /\ signature[2] = pubJwk

\* verify(publicKey, signable, signature)
verify(pubJwk, signable, signature) == signature = <<"sig", pubJwk, signable>>

\* sha256Hex(signable + '|' + signature): collision-free on the model's values
computeSegmentHash(seg) == <<"sha256", getSignableContent(seg), seg.signature>>

\* ------------------------------------------------------------------------
\* State
\* ------------------------------------------------------------------------
VARIABLES
  now,           \* the last value Date.now() returned
  ticks,         \* clock reads that saw time advance (bounded by MaxTicks)
  calls,         \* commitAction / incrementCaps calls so far (bounded by MaxCalls)
  ops,           \* other API calls so far (bounded by MaxOps)
  engine,        \* how the IndexedDB engine treats a transaction across a non-database await
  chain,         \* store state_chain: the stored segments (key seq, unique index by_nonce)
  syncLog,       \* store sync_log: {nonce, ts} records (key nonce)
  messages,      \* store messages: message projection records (key id)
  chain_head,    \* meta 'chain_head'
  chain_len,     \* meta 'chain_len'
  read_only,     \* meta 'read_only': "absent", "enabled" or "cleared"
  capsStore,     \* store caps: the daily/monthly/yearly/total records of the identity
  capsCache,     \* CapsTracker.cache entry of the identity ("none" when not cached)
  memMessages,   \* StateManager.messages (in-memory projection), in push order
  richScore,     \* StateManager.richScore
  businessScore, \* StateManager.businessScore
  ctxReadOnly,   \* the `readOnly` constant captured by initializeApp's context
  events,        \* the 'commit' events StateManager.emit has delivered
  pc,            \* position of the commitAction call in each call slot ("done": returned)
  loc,           \* locals and result of the commitAction call in each call slot;
                 \* loc[p].latched: the latch has been set ever since the call began
  incPc,         \* position of each in-flight incrementCaps call
  incLoc,        \* locals of each in-flight incrementCaps call
  scanReport,    \* the last scanForCorruption report and the latch when it returned
  effects,       \* history: what the steps of the call in each slot have changed
  purgeCutoff,   \* history: the latest cutoff cleanupOldNonces has purged up to
  lastRead,      \* history: the last caps read of the caps accountant's callers
  overlapped,    \* history: commits whose head-read..head-write window another commit entered
  lastAppend,    \* history: what the last append transaction did (stale: the segment did
                 \* not match the stored head and length when the transaction ran;
                 \* reason: the reason of the result appendSTA returned; replayed:
                 \* the nonce log held the segment's nonce when the transaction began)
  capsules,      \* store capsules: the capsule record of each capsule id
  held,          \* the capsule objects the application holds (from createCapsule / getCapsule)
  tvmBalance,    \* store tvm_balance: the balance record of the identity
  mintPc,        \* position of the mintTVM call in each call slot
  mintLoc,       \* the capsule and the result of the mintTVM call in each call slot
                 \* (wasMinted: the stored capsule was minted when the call began)
  restoreReport, \* the last verifyBackupRestoreEligibility call: arguments and result
  cloneReport,   \* the last detectClonedDevice call: argument, local segment and result
  integrityReport, \* the last verifyChainIntegrity call: its result, and the chain
                 \* length, the stored head and the altered segments it ran on
  tampered,      \* history: the seqs of the stored segments whose payload was altered
  rdPc,          \* position of each in-flight getCurrentCaps call
  rdLoc,         \* locals of each in-flight getCurrentCaps call: `now` and `caps`
  scored,        \* history: type and payload of the last segment updateScores ran on
  client,        \* the SignalClient object: state, ws, reconnectAttempts, reconnectTimer,
                 \* shouldReconnect, heartbeatTimer, heartbeatPending, lastPong,
                 \* messageQueue
  socks,         \* the WebSocket objects the client has created and not yet seen closed
  loop           \* the event loop and the wire of the signal client: pending reconnect
                 \* timeouts and the delay of the last one set, time since the last
                 \* heartbeat tick and since the unanswered ping, messages handed to
                 \* send and to the socket, and history (timers set since the last
                 \* open; the state disconnect() was called in, "no" once connect()
                 \* has been called again; whether both handlers of the last failed
                 \* socket called scheduleReconnect)

vars == <<now, ticks, calls, ops, engine, chain, syncLog, messages, chain_head, chain_len,
          read_only, capsStore, capsCache, memMessages, richScore, businessScore,
          ctxReadOnly, events, pc, loc, incPc, incLoc, scanReport, effects, purgeCutoff,
          lastRead, overlapped, lastAppend, capsules, held, tvmBalance, mintPc, mintLoc,
          restoreReport, cloneReport, integrityReport, tampered, rdPc, rdLoc,
          scored, client, socks, loop>>

dbVars == <<chain, syncLog, messages, chain_head, chain_len>>
memVars == <<memMessages, richScore, businessScore>>
capsVars == <<capsStore, capsCache>>
incVars == <<incPc, incLoc>>
histVars == <<purgeCutoff, lastRead, overlapped, lastAppend>>
mintVars == <<capsules, held, tvmBalance, mintPc, mintLoc>>
reportVars == <<restoreReport, cloneReport, integrityReport, tampered>>
readVars == <<rdPc, rdLoc>>
sigVars == <<client, socks, loop>>
extVars == <<readVars, scored, sigVars>>
\* everything but the signal client
coreVars == <<now, ticks, calls, ops, engine, dbVars, read_only, capsVars, memVars, ctxReadOnly,
              events, pc, loc, incVars, scanReport, effects, histVars, mintVars, reportVars,
              readVars, scored>>

Procs == {1, 2}
Nonces == 1..MaxNonce

\* ------------------------------------------------------------------------
\* Segments (segment.js)
\* ------------------------------------------------------------------------
\* a payload without an explicit scores field
NoScores == [richSet |-> FALSE, rich |-> 0, businessSet |-> FALSE, business |-> 0]
DefaultPayload == [chatId |-> "hakim", decision |-> "null", outcome |-> "null",
                   scores |-> NoScores]

\* createSegment
createSegment(hid, prevHash, seq, type, payload, previousOwner, ts, nonce) ==
  [seq |-> seq, timestamp |-> ts, nonce |-> nonce, type |-> type, payload |-> payload,
   prev_hash |-> prevHash, unlocker_ref |-> NoSegRef, unlocked_ref |-> NoSegRef,
   previous_owner |-> previousOwner, current_owner |-> hid,
   author |-> [hid |-> hid, pubJwk |-> PubKeyOf(hid)]]

\* signSegment
signSegment(seg, keyHid) ==
  [f \in (DOMAIN seg) \cup {"signature"} |->
     IF f = "signature" THEN sign(keyHid, getSignableContent(seg)) ELSE seg[f]]

NoSeg == signSegment(createSegment("null", GENESIS_HASH, 0, "null", DefaultPayload,
                                   NoRef, Time(0, 0), 0), "null")

isMessageType(type) == type \in MESSAGE_TYPES

\* affectsCaps
affectsCaps(type) == type \in {"chat.user", "ai.advice", "biz.decision", "capsule.mint"}

\* validateSegmentStructure, on the fields the model varies
validateSegmentStructure(seg) ==
  /\ seg.seq >= 1
  /\ seg.type \in STA_TYPES
  /\ seg.current_owner \in {HID, OTHER_HID}

\* ------------------------------------------------------------------------
\* Database reads (idb.js)
\* ------------------------------------------------------------------------
\* getSTABySeq: the stored segment with key seq, NoSeg when there is none
getSTABySeq(seq) ==
  IF \E s \in chain : s.seq = seq THEN CHOOSE s \in chain : s.seq = seq ELSE NoSeg

\* nonceExists
nonceExists(nonce) == \E e \in syncLog : e.nonce = nonce

\* ------------------------------------------------------------------------
\* Caps accountant (caps.js)
\* ------------------------------------------------------------------------
NoCache == [daily |-> -1, monthly |-> -1, yearly |-> -1, total |-> -1,
            dailyReset |-> Time(0, 0), monthlyReset |-> Time(0, 0), yearlyReset |-> Time(0, 0)]

\* loadCaps of an identity with no stored records
EmptyStoredCaps == [daily |-> 0, monthly |-> 0, yearly |-> 0, total |-> 0,
                    dailyReset |-> Time(0, 0), monthlyReset |-> Time(0, 0),
                    yearlyReset |-> Time(0, 0)]

\* a reset check that never finds a reset due
needsReset_never(caps, t) == FALSE

needsReset(caps, t) ==
  TimeLE(caps.dailyReset, t) \/ TimeLE(caps.monthlyReset, t) \/ TimeLE(caps.yearlyReset, t)

applyResets(caps, t) ==
  [daily |-> IF TimeLE(caps.dailyReset, t) THEN 0 ELSE caps.daily,
   monthly |-> IF TimeLE(caps.monthlyReset, t) THEN 0 ELSE caps.monthly,
   yearly |-> IF TimeLE(caps.yearlyReset, t) THEN 0 ELSE caps.yearly,
   total |-> caps.total,
   dailyReset |-> IF TimeLE(caps.dailyReset, t) THEN getNextDailyReset(t) ELSE caps.dailyReset,
   monthlyReset |-> IF TimeLE(caps.monthlyReset, t) THEN getNextMonthlyReset(t)
                    ELSE caps.monthlyReset,
   yearlyReset |-> IF TimeLE(caps.yearlyReset, t) THEN getNextYearlyReset(t)
                   ELSE caps.yearlyReset]

\* a caps read that counts the read as an action
getCurrentCaps_counting(cache, store, t) ==
  LET loaded == applyResets(store, t)
      counted == [loaded EXCEPT !.daily = @ + 1, !.monthly = @ + 1, !.yearly = @ + 1,
                                !.total = @ + 1]
  IN [caps |-> counted, store |-> counted, cache |-> counted]

\* getCurrentCaps: the record it returns, and what it leaves in the store and the cache
getCurrentCaps(cache, store, t) ==
  IF cache # NoCache /\ ~needsReset(cache, t)
  THEN [caps |-> cache, store |-> store, cache |-> cache]
  ELSE LET loaded == applyResets(store, t) IN
       [caps |-> loaded, store |-> IF needsReset(store, t) THEN loaded ELSE store,
        cache |-> loaded]

\* ------------------------------------------------------------------------
\* The nine validation rules (validation.js); each yields "ok" or its reason
\* ------------------------------------------------------------------------
\* Rule 1
validateCounterRelationship(seg) ==
  IF seg.unlocker_ref # NoSegRef /\ seg.unlocked_ref # NoSegRef
  THEN IF seg.unlocker_ref[1] <= seg.unlocked_ref[1] THEN "counter_order"
       ELSE IF getSTABySeq(seg.unlocker_ref[1]) = NoSeg
               \/ getSTABySeq(seg.unlocked_ref[1]) = NoSeg THEN "missing_refs"
       ELSE "ok"
  ELSE "ok"

\* Rule 2, on the record getCurrentCaps returned
validateCaps(caps) ==
  IF caps.daily >= DAILY_CAP THEN "daily_cap_exceeded"
  ELSE IF caps.monthly >= MONTHLY_CAP THEN "monthly_cap_exceeded"
  ELSE IF caps.yearly >= YEARLY_CAP THEN "yearly_cap_exceeded"
  ELSE "ok"

\* rule 3 without the interval check
validateRateLimit_unchecked(seg) == "ok"

\* rule 3 refusing a gap of exactly the minimum interval as well
validateRateLimit_inclusive(seg) ==
  LET prevSeg == getSTABySeq(chain_len) IN
  IF /\ chain_len > 0
     /\ prevSeg # NoSeg
     /\ prevSeg.author.hid = seg.author.hid
     /\ DiffLess(seg.timestamp, prevSeg.timestamp, MIN_BLOCK_INTERVAL_MS + 1)
  THEN "rate_limit" ELSE "ok"

\* Rule 3
validateRateLimit(seg) ==
  LET prevSeg == getSTABySeq(chain_len) IN
  IF /\ chain_len > 0
     /\ prevSeg # NoSeg
     /\ prevSeg.author.hid = seg.author.hid
     /\ DiffLess(seg.timestamp, prevSeg.timestamp, MIN_BLOCK_INTERVAL_MS)
  THEN "rate_limit" ELSE "ok"

\* Rule 5
validateOwnerTransition(seg) ==
  IF seg.type = "tvm.transfer"
  THEN IF seg.previous_owner = NoRef THEN "missing_previous_owner"
       ELSE IF seg.previous_owner = seg.current_owner THEN "same_owner"
       ELSE "ok"
  ELSE "ok"

\* rule 6 without the comparison
validateHistoryHash_unchecked(seg) == "ok"

\* Rule 6
validateHistoryHash(seg) == IF seg.prev_hash # chain_head THEN "bad_prev_hash" ELSE "ok"

\* Rule 7
validateSequence(seg) == IF seg.seq # chain_len + 1 THEN "bad_seq" ELSE "ok"

\* Rule 8
validateSignature(seg) ==
  IF verify(seg.author.pubJwk, getSignableContent(seg), seg.signature)
  THEN "ok" ELSE "bad_signature"

\* rule 9 without the look-up
validateNonce_unchecked(seg) == "ok"

\* Rule 9
validateNonce(seg) == IF nonceExists(seg.nonce) THEN "replay_nonce" ELSE "ok"

\* validateSegment with skipLivenessCheck, evaluated against one database
\* state: the reason of the first rule that fails, "ok" when none does
validateSegment(seg) ==
  LET caps == getCurrentCaps(capsCache, capsStore, now).caps
      rules == <<IF validateSegmentStructure(seg) THEN "ok" ELSE "invalid_structure",
                 validateCounterRelationship(seg), validateCaps(caps),
                 validateRateLimit(seg), validateOwnerTransition(seg),
                 validateHistoryHash(seg), validateSequence(seg),
                 validateSignature(seg), validateNonce(seg)>>
  IN IF \A i \in 1..Len(rules) : rules[i] = "ok" THEN "ok"
     ELSE rules[CHOOSE i \in 1..Len(rules) :
                  rules[i] # "ok" /\ \A j \in 1..(i - 1) : rules[j] = "ok"]

\* the reasons validateSegment fails with
VALIDATION_REASONS ==
  {"invalid_structure", "counter_order", "missing_refs", "daily_cap_exceeded",
   "monthly_cap_exceeded", "yearly_cap_exceeded", "rate_limit", "missing_previous_owner",
   "same_owner", "bad_prev_hash", "bad_seq", "bad_signature", "replay_nonce"}

\* ------------------------------------------------------------------------
\* Projections (state.js)
\* ------------------------------------------------------------------------
\* createMessageProjection: the record's id is "{seq}:{nonce}"
createMessageProjection(sta) ==
  [id |-> <<sta.seq, sta.nonce>>, seq |-> sta.seq, ts |-> sta.timestamp,
   type |-> sta.type, peer |-> sta.payload.chatId]

\* updateScores: [rich, business] after the segment
updateScores(sta, rich, business) ==
  LET r1 == IF sta.payload.scores.richSet THEN sta.payload.scores.rich ELSE rich
      b1 == IF sta.payload.scores.businessSet THEN sta.payload.scores.business ELSE business
      r2 == IF sta.type = "biz.decision" /\ sta.payload.decision = "ACCEPT"
            THEN (IF r1 + 2 > 100 THEN 100 ELSE r1 + 2) ELSE r1
      r3 == IF sta.type = "biz.outcome" /\ sta.payload.outcome = "SUCCESS"
            THEN (IF r2 + 5 > 100 THEN 100 ELSE r2 + 5) ELSE r2
      b3 == IF sta.type = "biz.outcome" /\ sta.payload.outcome = "SUCCESS"
            THEN (IF b1 + 3 > 100 THEN 100 ELSE b1 + 3) ELSE b1
  IN [rich |-> r3, business |-> b3]

\* ------------------------------------------------------------------------
\* The append transaction (StateManager.appendSTA over idb.js withStores)
\* ------------------------------------------------------------------------
\* a state_chain store without the unique index by_nonce and a sync_log whose
\* add() overwrites
ConstraintError_keysOnly(sta) == \E s \in chain : s.seq = sta.seq

\* stores without keys or unique indexes
ConstraintError_never(sta) == FALSE

\* An add() request fails with ConstraintError, and aborts the transaction, when
\* its key or a unique index value is already stored: state_chain key seq and
\* unique index by_nonce, sync_log key nonce, messages key id.
ConstraintError(sta) ==
  \/ \E s \in chain : s.seq = sta.seq
  \/ \E s \in chain : s.nonce = sta.nonce
  \/ \E e \in syncLog : e.nonce = sta.nonce
  \/ (isMessageType(sta.type) /\ \E m \in messages : m.id = <<sta.seq, sta.nonce>>)

\* The three add() requests are placed before `await sha256Hex(...)`, the two
\* meta put() requests after it.  An engine that keeps the transaction usable
\* across that await ("held") runs all five; one that commits a transaction as
\* soon as its requests are served and no database callback is running
\* ("autocommit", the IndexedDB rule) has committed the adds by then, the
\* put() throws and appendSTA returns append_error.
MetaWritten(sta) == engine = "held" /\ ~ConstraintError(sta)

\* an append that writes with put(): a stored record with the same key is replaced
appendSTA_put(sta) ==
  LET metaOk == engine = "held" IN
  [chain |-> {s \in chain : s.seq # sta.seq} \cup {sta},
   syncLog |-> {e \in syncLog : e.nonce # sta.nonce}
                 \cup {[nonce |-> sta.nonce, ts |-> sta.timestamp]},
   messages |-> IF isMessageType(sta.type)
                THEN {m \in messages : m.id # <<sta.seq, sta.nonce>>}
                       \cup {createMessageProjection(sta)}
                ELSE messages,
   chain_head |-> IF metaOk THEN computeSegmentHash(sta) ELSE chain_head,
   chain_len |-> IF metaOk THEN sta.seq ELSE chain_len,
   stored |-> TRUE,
   metaOk |-> metaOk,
   result |-> IF metaOk THEN [ok |-> TRUE, reason |-> "ok", seq |-> sta.seq,
                              head |-> computeSegmentHash(sta)]
              ELSE [ok |-> FALSE, reason |-> "append_error", seq |-> 0, head |-> NoHead]]

\* appendSTA: what the transaction leaves in the database, and the result
appendSTA(sta) ==
  LET stored == ~ConstraintError(sta)
      metaOk == MetaWritten(sta)
  IN [chain |-> IF stored THEN chain \cup {sta} ELSE chain,
      syncLog |-> IF stored THEN syncLog \cup {[nonce |-> sta.nonce, ts |-> sta.timestamp]}
                  ELSE syncLog,
      messages |-> IF stored /\ isMessageType(sta.type)
                   THEN messages \cup {createMessageProjection(sta)} ELSE messages,
      chain_head |-> IF metaOk THEN computeSegmentHash(sta) ELSE chain_head,
      chain_len |-> IF metaOk THEN sta.seq ELSE chain_len,
      stored |-> stored,
      metaOk |-> metaOk,
      result |-> IF metaOk THEN [ok |-> TRUE, reason |-> "ok", seq |-> sta.seq,
                                 head |-> computeSegmentHash(sta)]
                 ELSE [ok |-> FALSE, reason |-> "append_error", seq |-> 0, head |-> NoHead]]

\* ------------------------------------------------------------------------
\* Chain integrity scan (integrity.js)
\* ------------------------------------------------------------------------
\* the loop of verifyChainIntegrity from seq on: the errors and warnings it
\* adds and the head it computes
RECURSIVE ScanFrom(_, _, _, _, _)
ScanFrom(seq, expectedPrevHash, lastTimestamp, errors, warnings) ==
  IF seq > chain_len
  THEN [errors |-> errors, warnings |-> warnings, computedHead |-> expectedPrevHash]
  ELSE LET segment == getSTABySeq(seq) IN
       IF segment = NoSeg
       THEN ScanFrom(seq + 1, expectedPrevHash, lastTimestamp,
                     errors \cup {<<seq, "MISSING_SEGMENT">>}, warnings)
       ELSE ScanFrom(seq + 1, computeSegmentHash(segment), segment.timestamp,
              errors
                \cup (IF segment.seq # seq THEN {<<seq, "SEQ_MISMATCH">>} ELSE {})
                \cup (IF segment.prev_hash # expectedPrevHash
                      THEN {<<seq, "HASH_CHAIN_BROKEN">>} ELSE {})
                \cup (IF validateSignature(segment) # "ok"
                      THEN {<<seq, "INVALID_SIGNATURE">>} ELSE {}),
              warnings
                \cup (IF ~TimeLE(lastTimestamp, segment.timestamp)
                      THEN {<<seq, "TIMESTAMP_REGRESSION">>} ELSE {}))

\* verifyChainIntegrity
verifyChainIntegrity ==
  IF chain_len = 0
  THEN [ok |-> TRUE, errors |-> {}, warnings |-> {}]
  ELSE LET r == ScanFrom(1, GENESIS_HASH, Time(0, 0), {}, {})
           errors == r.errors \cup (IF chain_head # r.computedHead
                                    THEN {<<chain_len, "HEAD_MISMATCH">>} ELSE {})
       IN [ok |-> errors = {}, errors |-> errors, warnings |-> r.warnings]

CRITICAL_CODES == {"HASH_CHAIN_BROKEN", "HEAD_MISMATCH", "MISSING_SEGMENT"}

\* scanForCorruption: the severity of its report
scanSeverity ==
  LET integrity == verifyChainIntegrity IN
  IF \E e \in integrity.errors : e[2] \in CRITICAL_CODES THEN "critical"
  ELSE IF integrity.errors # {} THEN "major"
  ELSE IF integrity.warnings # {} THEN "minor"
  ELSE "none"

\* isReadOnlyMode
isReadOnlyMode == read_only = "enabled"

\* rebuildProjections: the message ids in seq order from position seq on
RECURSIVE RebuildMessages(_, _)
RebuildMessages(todo, acc) ==
  IF todo = {} THEN acc
  ELSE LET s == CHOOSE x \in todo : \A y \in todo : x.seq <= y.seq IN
       RebuildMessages(todo \ {s},
         IF isMessageType(s.type) THEN Append(acc, createMessageProjection(s).id) ELSE acc)

RECURSIVE RebuildScores(_, _)
RebuildScores(todo, acc) ==
  IF todo = {} THEN acc
  ELSE LET s == CHOOSE x \in todo : \A y \in todo : x.seq <= y.seq IN
       RebuildScores(todo \ {s}, updateScores(s, acc.rich, acc.business))

\* ------------------------------------------------------------------------
\* Capsules and TVM (tvm.js)
\* ------------------------------------------------------------------------
Capsules == 1..MaxCapsules

\* the rich scores of the analyses capsules are created from: one below the
\* threshold and one on it; the business score, the ECF score and the message
\* count of every session pass their thresholds
RichScores == {MIN_RICH_SCORE - 1, MIN_RICH_SCORE}

\* an eligibility check that passes every capsule
checkEligibility_always(capsule) == [eligible |-> TRUE, reason |-> "none"]

\* CapsuleManager.checkEligibility, on the field the model varies
checkEligibility(capsule) ==
  IF capsule.richScore < MIN_RICH_SCORE
  THEN [eligible |-> FALSE, reason |-> "Rich score too low"]
  ELSE [eligible |-> TRUE, reason |-> "none"]

\* ------------------------------------------------------------------------
\* Backup and clone checks (integrity.js)
\* ------------------------------------------------------------------------
\* a currentState argument of null
NullState == [isNull |-> TRUE, chainLen |-> 0, chainHead |-> GENESIS_HASH]

\* an eligibility decision that compares the lengths only
verifyBackupRestoreEligibility_lengthsOnly(backupData, currentState) ==
  IF currentState.isNull \/ currentState.chainLen = 0
  THEN [canRestore |-> TRUE, requiresSync |-> FALSE,
        reason |-> "Fresh install - no sync required"]
  ELSE IF backupData.chainLen < currentState.chainLen
  THEN [canRestore |-> FALSE, requiresSync |-> TRUE,
        reason |-> "Backup is older than current state. Sync required to merge."]
  ELSE [canRestore |-> TRUE, requiresSync |-> FALSE, reason |-> "Backup matches current state"]

\* verifyBackupRestoreEligibility
verifyBackupRestoreEligibility(backupData, currentState) ==
  IF currentState.isNull \/ currentState.chainLen = 0
  THEN [canRestore |-> TRUE, requiresSync |-> FALSE,
        reason |-> "Fresh install - no sync required"]
  ELSE IF backupData.chainLen < currentState.chainLen
  THEN [canRestore |-> FALSE, requiresSync |-> TRUE,
        reason |-> "Backup is older than current state. Sync required to merge."]
  ELSE IF backupData.chainHead # currentState.chainHead
  THEN IF backupData.chainLen > currentState.chainLen
       THEN [canRestore |-> FALSE, requiresSync |-> TRUE,
             reason |-> "Backup has diverged. Online sync required to resolve fork."]
       ELSE [canRestore |-> FALSE, requiresSync |-> TRUE,
             reason |-> "Chain heads do not match. Sync required."]
  ELSE [canRestore |-> TRUE, requiresSync |-> FALSE, reason |-> "Backup matches current state"]

\* detectClonedDevice: the evidence names the seq and the two nonces
detectClonedDevice(incomingSegment) ==
  LET localSegment == getSTABySeq(incomingSegment.seq) IN
  IF localSegment = NoSeg
  THEN [isClone |-> FALSE, evidence |-> <<>>]
  ELSE IF localSegment.author.hid = incomingSegment.author.hid
          /\ localSegment.nonce # incomingSegment.nonce
  THEN [isClone |-> TRUE,
        evidence |-> <<incomingSegment.seq, localSegment.nonce, incomingSegment.nonce>>]
  ELSE [isClone |-> FALSE, evidence |-> <<>>]

\* ------------------------------------------------------------------------
\* Initial state: initializeApp() has run on a fresh database
\* ------------------------------------------------------------------------
\* 1970-12-31T23:59:59.000Z: one second before a day, month and year boundary
START == Time(364, 86399000)

NoCapsule == [status |-> "absent", richScore |-> 0]
IdleMint == [capsule |-> 0, wasMinted |-> FALSE,
             result |-> [ok |-> FALSE, reason |-> "none", seq |-> 0, balance |-> 0]]
NoRestoreReport == [ran |-> FALSE, backupData |-> [chainLen |-> 0, chainHead |-> GENESIS_HASH],
                    currentState |-> NullState,
                    result |-> [canRestore |-> FALSE, requiresSync |-> FALSE,
                                reason |-> "none"]]
NoIntegrityReport == [ran |-> FALSE, chainLen |-> 0, storedHead |-> GENESIS_HASH,
                      altered |-> {}, result |-> [ok |-> TRUE, errors |-> {}, warnings |-> {}]]
NoCloneReport == [ran |-> FALSE, incoming |-> NoSeg, local |-> NoSeg,
                  result |-> [isClone |-> FALSE, evidence |-> <<>>]]

NoResult == [ok |-> FALSE, reason |-> "none", seq |-> 0, head |-> NoHead]
IdleLoc == [type |-> "null", previousOwner |-> NoRef,
            prevHash |-> GENESIS_HASH, seg |-> NoSeg, result |-> NoResult,
            latched |-> FALSE]
IdleInc == [amount |-> 0, caps |-> NoCache, result |-> "none"]
NoAppend == [stored |-> FALSE, metaOk |-> FALSE, valid |-> FALSE, overlap |-> FALSE,
             latched |-> FALSE, stale |-> FALSE, reason |-> "none",
             replayed |-> FALSE]
NEVER == Time(-1, 0)
IdleRead == [now |-> NEVER, caps |-> NoCache]
NoScored == [type |-> "null", payload |-> DefaultPayload]
Sockets == 1..MaxSockets
\* new SignalClient(serverUrl); lastPong is 0, or 1 for the time of a pong
NewSignalClient ==
  [state |-> "disconnected", ws |-> 0, reconnectAttempts |-> 0, reconnectTimer |-> FALSE,
   shouldReconnect |-> TRUE, heartbeatTimer |-> FALSE, heartbeatPending |-> FALSE,
   lastPong |-> 0, messageQueue |-> <<>>]
\* a WebSocket: readyState, whether it has been open, whether the reconnect
\* timer's callback awaits its connect promise, and who called close() on it
NoSocket == [ready |-> "none", opened |-> FALSE, awaited |-> FALSE, requested |-> FALSE,
             timedOut |-> FALSE]
IdleLoop == [timers |-> 0, delay |-> 0, scheduled |-> 0, hbElapsed |-> 0, pingAge |-> 0,
             accepted |-> <<>>, transmitted |-> <<>>, stopped |-> "no", doubled |-> FALSE]
NoRead == [ran |-> FALSE, t |-> NEVER, before |-> NoCache, caps |-> NoCache,
           store |-> NoCache]

Init ==
  /\ now = START
  /\ ticks = 0
  /\ calls = 0
  /\ ops = 0
  /\ engine \in {"held", "autocommit"}
  /\ chain = {}
  /\ syncLog = {}
  /\ messages = {}
  /\ chain_head = GENESIS_HASH
  /\ chain_len = 0
  /\ read_only = "absent"
  /\ capsStore = applyResets(EmptyStoredCaps, START)
  /\ capsCache = applyResets(EmptyStoredCaps, START)
  /\ memMessages = <<>>
  /\ richScore = 0
  /\ businessScore = 0
  /\ ctxReadOnly = FALSE
  /\ events = {}
  /\ pc = [p \in Procs |-> "idle"]
  /\ loc = [p \in Procs |-> IdleLoc]
  /\ incPc = [p \in Procs |-> "idle"]
  /\ incLoc = [p \in Procs |-> IdleInc]
  /\ scanReport = [severity |-> "none", latched |-> FALSE, ran |-> FALSE]
  /\ effects = [p \in Procs |-> {}]
  /\ purgeCutoff = NEVER
  /\ lastRead = NoRead
  /\ overlapped = {}
  /\ lastAppend = NoAppend
  /\ capsules = [c \in Capsules |-> NoCapsule]
  /\ held = [c \in Capsules |-> NoCapsule]
  /\ tvmBalance = 0
  /\ mintPc = [p \in Procs |-> "idle"]
  /\ mintLoc = [p \in Procs |-> IdleMint]
  /\ restoreReport = NoRestoreReport
  /\ cloneReport = NoCloneReport
  /\ integrityReport = NoIntegrityReport
  /\ tampered = {}
  /\ rdPc = [p \in Procs |-> "idle"]
  /\ rdLoc = [p \in Procs |-> IdleRead]
  /\ scored = NoScored
  /\ client = NewSignalClient
  /\ socks = [s \in Sockets |-> NoSocket]
  /\ loop = IdleLoop

\* ------------------------------------------------------------------------
\* The clock
\* ------------------------------------------------------------------------
\* Date.now(): the time that has passed since the clock was last read is 0 ms
\* or one of these; at most MaxTicks reads see the clock advanced
Elapsed == {999, 1000}

\* the values a clock read may return
ClockReads == {now} \cup (IF ticks < MaxTicks THEN {TimeAdd(now, k) : k \in Elapsed} ELSE {})

\* a clock read returning t
ReadClock(t) ==
  /\ t \in ClockReads
  /\ now' = t
  /\ ticks' = IF t = now THEN ticks ELSE ticks + 1

\* ------------------------------------------------------------------------
\* commitAction (index.js context.commitAction, state.js StateManager.commitAction)
\* ------------------------------------------------------------------------
\* what a step changes: the database stores of the chain, the in-memory
\* projections and scores, the caps record (a calendar reset or another
\* write), the caps cache, and the events delivered
StepEffects ==
  (IF dbVars' # dbVars THEN {"db"} ELSE {})
    \cup (IF memVars' # memVars THEN {"mem"} ELSE {})
    \cup (IF capsStore' = capsStore THEN {}
          ELSE IF capsStore' = applyResets(capsStore, now') THEN {"caps_reset"}
          ELSE {"caps_write"})
    \cup (IF capsCache' # capsCache THEN {"caps_cache"} ELSE {})
    \cup (IF events' # events THEN {"event"} ELSE {})

\* the step is one of the call in slot p
Record(p) == effects' = [effects EXCEPT ![p] = @ \cup StepEffects]

\* the (type, previousOwner) arguments of the calls
CommitInputs == {<<"chat.user", NoRef>>, <<"tvm.transfer", NoRef>>,
                 <<"tvm.transfer", OTHER_HID>>}

\* the commits that have read the head and not yet returned
InFlight == {q \in Procs : pc[q] \notin {"idle", "done"}}

Finish(p, reason) ==
  /\ pc' = [pc EXCEPT ![p] = "done"]
  /\ loc' = [loc EXCEPT ![p].result = [ok |-> FALSE, reason |-> reason, seq |-> 0,
                                          head |-> NoHead]]

\* a call in slot p (free once its previous call has returned), up to
\* `await getChainHead(this.db)`
CommitAction(p) ==
  /\ UNCHANGED <<mintVars, reportVars, extVars>>
  /\ pc[p] \in {"idle", "done"}
  /\ calls < MaxCalls
  /\ calls' = calls + 1
  /\ \E entry \in {"context", "state"}, in \in CommitInputs :
       IF entry = "context" /\ ctxReadOnly
       THEN /\ pc' = [pc EXCEPT ![p] = "done"]
            /\ loc' = [loc EXCEPT ![p] =
                 [IdleLoc EXCEPT !.latched = isReadOnlyMode,
                    !.result = [ok |-> FALSE, reason |-> "read_only_mode", seq |-> 0,
                                head |-> NoHead]]]
            /\ UNCHANGED overlapped
       ELSE /\ pc' = [pc EXCEPT ![p] = "getLen"]
            /\ loc' = [loc EXCEPT ![p] =
                 [IdleLoc EXCEPT !.type = in[1], !.previousOwner = in[2],
                    !.prevHash = chain_head, !.latched = isReadOnlyMode]]
            /\ overlapped' = (overlapped \ {p}) \cup (InFlight \ {p})
  /\ UNCHANGED <<now, ticks, ops, engine, dbVars, read_only, capsVars, memVars, ctxReadOnly, events,
                 incVars, scanReport, purgeCutoff, lastRead, lastAppend>>
  /\ effects' = [effects EXCEPT ![p] = {}]

\* `await getChainLen`, createSegment (Date.now(), a random nonce), signSegment
GetLen(p) ==
  /\ UNCHANGED <<mintVars, reportVars, extVars>>
  /\ pc[p] = "getLen"
  /\ \E nonce \in Nonces, t \in ClockReads :
       /\ ReadClock(t)
       /\ loc' = [loc EXCEPT ![p].seg =
                 signSegment(createSegment(HID, loc[p].prevHash, chain_len + 1, loc[p].type,
                                           DefaultPayload, loc[p].previousOwner, t, nonce),
                             HID)]
  /\ pc' = [pc EXCEPT ![p] = "vCaps"]
  /\ UNCHANGED <<calls, ops, engine, dbVars, read_only, capsVars, memVars,
                 ctxReadOnly, events, incVars, scanReport, histVars>>
  /\ Record(p)

\* validateSegment: the structure check, rule 1, and rule 2 with its
\* `await capsTracker.getCurrentCaps(hid)`
VCaps(p) ==
  /\ UNCHANGED <<mintVars, reportVars, extVars>>
  /\ pc[p] = "vCaps"
  /\ LET seg == loc[p].seg IN
     IF ~validateSegmentStructure(seg)
     THEN Finish(p, "invalid_structure") /\ UNCHANGED <<now, ticks, capsVars>>
     ELSE IF validateCounterRelationship(seg) # "ok"
     THEN Finish(p, validateCounterRelationship(seg)) /\ UNCHANGED <<now, ticks, capsVars>>
     ELSE \E t \in ClockReads :
            LET got == getCurrentCaps(capsCache, capsStore, t) IN
            /\ ReadClock(t)
            /\ capsStore' = got.store
            /\ capsCache' = got.cache
            /\ IF validateCaps(got.caps) # "ok"
               THEN Finish(p, validateCaps(got.caps))
               ELSE pc' = [pc EXCEPT ![p] = "vRate"] /\ UNCHANGED loc
  /\ UNCHANGED <<calls, ops, engine, dbVars, read_only, memVars, ctxReadOnly, events,
                 incVars, scanReport, histVars>>
  /\ Record(p)

\* rule 3 placed after rule 5
VRate_ownerFirst(p) ==
  /\ UNCHANGED <<mintVars, reportVars, extVars>>
  /\ pc[p] = "vRate"
  /\ IF validateOwnerTransition(loc[p].seg) # "ok"
     THEN Finish(p, validateOwnerTransition(loc[p].seg))
     ELSE IF validateRateLimit(loc[p].seg) # "ok"
     THEN Finish(p, validateRateLimit(loc[p].seg))
     ELSE pc' = [pc EXCEPT ![p] = "vHash"] /\ UNCHANGED loc
  /\ UNCHANGED <<now, ticks, calls, ops, engine, dbVars, read_only, capsVars, memVars,
                 ctxReadOnly, events, incVars, scanReport, histVars>>
  /\ Record(p)

\* rule 3: `await getChainLen`, `await getSTABySeq`
VRate(p) ==
  /\ UNCHANGED <<mintVars, reportVars, extVars>>
  /\ pc[p] = "vRate"
  /\ IF validateRateLimit(loc[p].seg) # "ok"
     THEN Finish(p, validateRateLimit(loc[p].seg))
     ELSE pc' = [pc EXCEPT ![p] = "vHash"] /\ UNCHANGED loc
  /\ UNCHANGED <<now, ticks, calls, ops, engine, dbVars, read_only, capsVars, memVars,
                 ctxReadOnly, events, incVars, scanReport, histVars>>
  /\ Record(p)

\* rule 5, and rule 6 with its `await getChainHead`
VHash(p) ==
  /\ UNCHANGED <<mintVars, reportVars, extVars>>
  /\ pc[p] = "vHash"
  /\ IF validateOwnerTransition(loc[p].seg) # "ok"
     THEN Finish(p, validateOwnerTransition(loc[p].seg)) /\ UNCHANGED overlapped
     ELSE /\ overlapped' = overlapped \cup (InFlight \ {p})
          /\ IF validateHistoryHash(loc[p].seg) # "ok"
             THEN Finish(p, validateHistoryHash(loc[p].seg))
             ELSE pc' = [pc EXCEPT ![p] = "vSeq"] /\ UNCHANGED loc
  /\ UNCHANGED <<now, ticks, calls, ops, engine, dbVars, read_only, capsVars, memVars,
                 ctxReadOnly, events, incVars, scanReport, purgeCutoff, lastRead, lastAppend>>
  /\ Record(p)

\* rule 7: `await getChainLen`
VSeq(p) ==
  /\ UNCHANGED <<mintVars, reportVars, extVars>>
  /\ pc[p] = "vSeq"
  /\ IF validateSequence(loc[p].seg) # "ok"
     THEN Finish(p, validateSequence(loc[p].seg))
     ELSE pc' = [pc EXCEPT ![p] = "vNonce"] /\ UNCHANGED loc
  /\ UNCHANGED <<now, ticks, calls, ops, engine, dbVars, read_only, capsVars, memVars,
                 ctxReadOnly, events, incVars, scanReport, histVars>>
  /\ Record(p)

\* rule 8, and rule 9 with its `await nonceExists`
VNonce(p) ==
  /\ UNCHANGED <<mintVars, reportVars, extVars>>
  /\ pc[p] = "vNonce"
  /\ LET seg == loc[p].seg IN
     IF validateSignature(seg) # "ok"
     THEN Finish(p, validateSignature(seg))
     ELSE IF validateNonce(seg) # "ok"
     THEN Finish(p, validateNonce(seg))
     ELSE pc' = [pc EXCEPT ![p] = "append"] /\ UNCHANGED loc
  /\ UNCHANGED <<now, ticks, calls, ops, engine, dbVars, read_only, capsVars, memVars,
                 ctxReadOnly, events, incVars, scanReport, histVars>>
  /\ Record(p)

\* an announcement whatever the result
shouldEmit_always(result) == TRUE

\* `if (result.ok)`: the results commitAction emits a 'commit' event for
shouldEmit(result) == result.ok

\* `await this.appendSTA(signedSegment)`: the in-memory projections are updated
\* inside the transaction callback, whatever becomes of the transaction
AppendStep(p) ==
  /\ UNCHANGED <<mintVars, reportVars, extVars>>
  /\ pc[p] = "append"
  /\ LET sta == loc[p].seg
         tx == appendSTA(sta)
         sc == updateScores(sta, richScore, businessScore)
     IN /\ chain' = tx.chain
        /\ syncLog' = tx.syncLog
        /\ messages' = tx.messages
        /\ chain_head' = tx.chain_head
        /\ chain_len' = tx.chain_len
        /\ memMessages' = IF isMessageType(sta.type)
                          THEN Append(memMessages, createMessageProjection(sta).id)
                          ELSE memMessages
        /\ richScore' = sc.rich
        /\ businessScore' = sc.business
        /\ loc' = [loc EXCEPT ![p].result = tx.result]
        /\ lastAppend' = [stored |-> tx.stored, metaOk |-> tx.metaOk,
                          valid |-> validateSegment(sta) = "ok",
                          overlap |-> p \in overlapped, latched |-> isReadOnlyMode,
                          stale |-> sta.prev_hash # chain_head \/ sta.seq # chain_len + 1,
                          reason |-> tx.result.reason,
                          replayed |-> nonceExists(sta.nonce)]
        /\ overlapped' = IF tx.metaOk THEN overlapped \cup (InFlight \ {p}) ELSE overlapped
  /\ pc' = [pc EXCEPT ![p] = IF shouldEmit(appendSTA(loc[p].seg).result) THEN "emit"
                              ELSE "done"]
  /\ UNCHANGED <<now, ticks, calls, ops, engine, read_only, capsVars, ctxReadOnly, events, incVars,
                 scanReport, purgeCutoff, lastRead>>
  /\ Record(p)

\* `if (result.ok) this.emit('commit', {type, seq, head})`, and the return
Emit(p) ==
  /\ UNCHANGED <<mintVars, reportVars, extVars>>
  /\ pc[p] = "emit"
  /\ events' = events \cup {[type |-> loc[p].type, seq |-> loc[p].result.seq,
                             head |-> loc[p].result.head]}
  /\ pc' = [pc EXCEPT ![p] = "done"]
  /\ UNCHANGED <<now, ticks, calls, ops, engine, dbVars, read_only, capsVars, memVars,
                 ctxReadOnly, loc, incVars, scanReport, histVars>>
  /\ Record(p)

\* ------------------------------------------------------------------------
\* Commits only
\* ------------------------------------------------------------------------
NextCommits ==
  \/ \E p \in Procs : CommitAction(p)
  \/ \E p \in Procs : GetLen(p)
  \/ \E p \in Procs : VCaps(p)
  \/ \E p \in Procs : VRate(p)
  \/ \E p \in Procs : VHash(p)
  \/ \E p \in Procs : VSeq(p)
  \/ \E p \in Procs : VNonce(p)
  \/ \E p \in Procs : AppendStep(p)
  \/ \E p \in Procs : Emit(p)

SpecCommits == Init /\ [][NextCommits]_vars

\* ------------------------------------------------------------------------
\* The commits of one caller, each awaited before the next
\* ------------------------------------------------------------------------
NextSerial ==
  \/ CommitAction(1)
  \/ GetLen(1)
  \/ VCaps(1)
  \/ VRate(1)
  \/ VHash(1)
  \/ VSeq(1)
  \/ VNonce(1)
  \/ AppendStep(1)
  \/ Emit(1)

SpecSerial == Init /\ [][NextSerial]_vars

\* ------------------------------------------------------------------------
\* The other exported operations
\* ------------------------------------------------------------------------
BOGUS_HASH == <<"sha256", "bogus">>

\* the segments a caller of the legacy appendSTA(db, sta) hands in: built on
\* the current head and length, one of them well formed, one with a foreign
\* prev_hash, one with a signature the key pair did not make
LegacySegments ==
  LET mk(prev, nonce) ==
        signSegment(createSegment(HID, prev, chain_len + 1, "chat.user", DefaultPayload,
                                  NoRef, now, nonce), HID)
  IN {mk(chain_head, n) : n \in Nonces}
       \cup {mk(BOGUS_HASH, n) : n \in Nonces}
       \cup {[mk(chain_head, n) EXCEPT !.signature = FORGED_SIG] : n \in Nonces}

\* the legacy export appendSTA(db, sta): a temporary StateManager on the same
\* database runs appendSTA; no validation, and the projections it updates
\* are the temporary manager's
LegacyAppendSTA ==
  /\ UNCHANGED <<mintVars, reportVars, extVars>>
  /\ ops < MaxOps
  /\ ops' = ops + 1
  /\ \E sta \in LegacySegments :
       LET tx == appendSTA(sta) IN
       /\ chain' = tx.chain
       /\ syncLog' = tx.syncLog
       /\ messages' = tx.messages
       /\ chain_head' = tx.chain_head
       /\ chain_len' = tx.chain_len
       /\ lastAppend' = [stored |-> tx.stored, metaOk |-> tx.metaOk,
                         valid |-> validateSegment(sta) = "ok",
                         overlap |-> FALSE, latched |-> isReadOnlyMode,
                         stale |-> sta.prev_hash # chain_head \/ sta.seq # chain_len + 1,
                         reason |-> tx.result.reason,
                          replayed |-> nonceExists(sta.nonce)]
       /\ overlapped' = IF tx.metaOk THEN overlapped \cup InFlight ELSE overlapped
  /\ UNCHANGED <<now, ticks, calls, engine, read_only, capsVars, memVars, ctxReadOnly, events,
                 pc, loc, incVars, scanReport, effects, purgeCutoff, lastRead>>

\* the maxAgeMs arguments of cleanupOldNonces, in days
CleanupAges == {0, NONCE_CLEANUP_AGE_DAYS}

\* cleanupOldNonces(db, maxAgeMs): deletes the sync_log entries with
\* ts <= Date.now() - maxAgeMs
CleanupOldNonces ==
  /\ UNCHANGED <<mintVars, reportVars, extVars>>
  /\ ops < MaxOps
  /\ ops' = ops + 1
  /\ \E age \in CleanupAges, t \in ClockReads :
       LET cutoff == Time(t.d - age, t.ms) IN
       /\ ReadClock(t)
       /\ syncLog' = {e \in syncLog : ~TimeLE(e.ts, cutoff)}
       /\ purgeCutoff' = IF TimeLE(purgeCutoff, cutoff) THEN cutoff ELSE purgeCutoff
  /\ UNCHANGED <<calls, engine, chain, messages, chain_head, chain_len, read_only, capsVars,
                 memVars, ctxReadOnly, events, pc, loc, incVars, scanReport, effects, lastRead,
                 overlapped, lastAppend>>

\* enterReadOnlyMode(db)
EnterReadOnlyMode ==
  /\ UNCHANGED <<mintVars, reportVars, extVars>>
  /\ ops < MaxOps
  /\ ops' = ops + 1
  /\ read_only' = "enabled"
  /\ UNCHANGED <<now, ticks, calls, engine, dbVars, capsVars, memVars, ctxReadOnly, events,
                 pc, loc, incVars, scanReport, effects, histVars>>

\* exitReadOnlyMode(db)
ExitReadOnlyMode ==
  /\ UNCHANGED <<mintVars, reportVars, extVars>>
  /\ ops < MaxOps
  /\ ops' = ops + 1
  /\ read_only' = "cleared"
  /\ loc' = [p \in Procs |-> [loc[p] EXCEPT !.latched = FALSE]]
  /\ UNCHANGED <<now, ticks, calls, engine, dbVars, capsVars, memVars, ctxReadOnly, events,
                 pc, incVars, scanReport, effects, histVars>>

\* scanForCorruption(db): returns its report
ScanForCorruption ==
  /\ UNCHANGED <<mintVars, reportVars, extVars>>
  /\ ops < MaxOps
  /\ ops' = ops + 1
  /\ scanReport' = [severity |-> scanSeverity, latched |-> isReadOnlyMode, ran |-> TRUE]
  /\ UNCHANGED <<now, ticks, calls, engine, dbVars, read_only, capsVars, memVars,
                 ctxReadOnly, events, pc, loc, incVars, effects, histVars>>

\* initializeApp() on the existing database (a restart with no call in
\* flight): new StateManager and CapsTracker, rebuildProjections, the
\* integrity check and its latch, the context's readOnly, the first caps read
InitializeApp ==
  /\ UNCHANGED <<mintVars, reportVars, extVars>>
  /\ ops < MaxOps
  /\ ops' = ops + 1
  /\ InFlight = {}
  /\ LET rebuilt == IF chain_len = 0 THEN [rich |-> 0, business |-> 0]
                    ELSE RebuildScores(chain, [rich |-> 0, business |-> 0])
     IN /\ memMessages' = IF chain_len = 0 THEN <<>> ELSE RebuildMessages(chain, <<>>)
        /\ richScore' = rebuilt.rich
        /\ businessScore' = rebuilt.business
  /\ read_only' = IF verifyChainIntegrity.ok THEN read_only ELSE "enabled"
  /\ ctxReadOnly' = (read_only' = "enabled")
  /\ \E t \in ClockReads :
       LET got == getCurrentCaps(NoCache, capsStore, t) IN
       /\ ReadClock(t)
       /\ capsStore' = got.store
       /\ capsCache' = got.cache
  /\ pc' = [p \in Procs |-> "idle"]
  /\ loc' = [p \in Procs |-> IdleLoc]
  /\ effects' = [p \in Procs |-> {}]
  /\ overlapped' = {}
  /\ UNCHANGED <<calls, engine, dbVars, events, incVars, scanReport, purgeCutoff,
                 lastRead, lastAppend>>

\* ------------------------------------------------------------------------
\* The application with one caller: commits one at a time, and every other
\* exported operation between their steps
\* ------------------------------------------------------------------------
Next ==
  \/ CommitAction(1)
  \/ GetLen(1)
  \/ VCaps(1)
  \/ VRate(1)
  \/ VHash(1)
  \/ VSeq(1)
  \/ VNonce(1)
  \/ AppendStep(1)
  \/ Emit(1)
  \/ LegacyAppendSTA
  \/ CleanupOldNonces
  \/ EnterReadOnlyMode
  \/ ExitReadOnlyMode
  \/ ScanForCorruption
  \/ InitializeApp

Spec == Init /\ [][Next]_vars

\* ------------------------------------------------------------------------
\* The caps accountant under concurrent callers (caps.js)
\* ------------------------------------------------------------------------
\* the `amount` arguments of incrementCaps
Amounts == {1, DAILY_CAP - 1}

\* incrementCaps(hid, amount), up to `const caps = await this.getCurrentCaps(hid)`:
\* the call holds a formatted copy of the record
IncrementCaps(p) ==
  /\ UNCHANGED <<mintVars, reportVars, extVars>>
  /\ incPc[p] = "idle"
  /\ calls < MaxCalls
  /\ calls' = calls + 1
  /\ \E amount \in Amounts, t \in ClockReads :
       LET got == getCurrentCaps(capsCache, capsStore, t) IN
       /\ ReadClock(t)
       /\ capsStore' = got.store
       /\ capsCache' = got.cache
       /\ incLoc' = [incLoc EXCEPT ![p] = [amount |-> amount, caps |-> got.caps,
                                            result |-> "none"]]
       /\ lastRead' = [ran |-> TRUE, t |-> t, before |-> capsStore, caps |-> got.caps,
                       store |-> got.store]
  /\ incPc' = [incPc EXCEPT ![p] = "check"]
  /\ UNCHANGED <<ops, engine, dbVars, read_only, memVars, ctxReadOnly, events, pc, loc,
                 scanReport, effects, purgeCutoff, overlapped, lastAppend>>

\* the rest of incrementCaps: the limit checks on the copy, then the cached
\* record is increased in place and saved
IncrementApply(p) ==
  /\ UNCHANGED <<mintVars, reportVars, extVars>>
  /\ incPc[p] = "check"
  /\ LET caps == incLoc[p].caps
         amount == incLoc[p].amount
         reason == IF caps.daily + amount > DAILY_CAP THEN "daily_cap_exceeded"
                   ELSE IF caps.monthly + amount > MONTHLY_CAP THEN "monthly_cap_exceeded"
                   ELSE IF caps.yearly + amount > YEARLY_CAP THEN "yearly_cap_exceeded"
                   ELSE "ok"
         record == IF capsCache # NoCache THEN capsCache ELSE capsStore
         saved == [record EXCEPT !.daily = @ + amount, !.monthly = @ + amount,
                                 !.yearly = @ + amount, !.total = @ + amount]
     IN /\ incLoc' = [incLoc EXCEPT ![p].result = reason]
        /\ capsStore' = IF reason = "ok" THEN saved ELSE capsStore
        /\ capsCache' = IF reason = "ok" THEN saved ELSE capsCache
  /\ incPc' = [incPc EXCEPT ![p] = "idle"]
  /\ UNCHANGED <<now, ticks, calls, ops, engine, dbVars, read_only, memVars, ctxReadOnly, events,
                 pc, loc, scanReport, effects, histVars>>

\* context.getCaps(): capsTracker.getCurrentCaps(hid)
GetCaps ==
  /\ UNCHANGED <<mintVars, reportVars, extVars>>
  /\ ops < MaxOps
  /\ ops' = ops + 1
  /\ \E t \in ClockReads :
       LET got == getCurrentCaps(capsCache, capsStore, t) IN
       /\ ReadClock(t)
       /\ capsStore' = got.store
       /\ capsCache' = got.cache
       /\ lastRead' = [ran |-> TRUE, t |-> t, before |-> capsStore, caps |-> got.caps,
                       store |-> got.store]
  /\ UNCHANGED <<calls, engine, dbVars, read_only, memVars, ctxReadOnly, events, pc, loc,
                 incVars, scanReport, effects, purgeCutoff, overlapped, lastAppend>>

NextCaps ==
  \/ \E p \in Procs : IncrementCaps(p)
  \/ \E p \in Procs : IncrementApply(p)
  \/ GetCaps

SpecCaps == Init /\ [][NextCaps]_vars

\* ------------------------------------------------------------------------
\* The caps cache, one step per await of getCurrentCaps (caps.js)
\* ------------------------------------------------------------------------
\* new CapsTracker(db): the cache is an empty Map
NewCapsTracker ==
  /\ capsCache # NoCache
  /\ \A p \in Procs : incPc[p] = "idle" /\ rdPc[p] = "idle"
  /\ capsCache' = NoCache
  /\ UNCHANGED <<now, ticks, calls, ops, engine, dbVars, read_only, capsStore, memVars,
                 ctxReadOnly, events, pc, loc, incVars, scanReport, effects, histVars,
                 mintVars, reportVars, readVars, scored,
                 sigVars>>

\* getCurrentCaps(hid) up to `await this.loadCaps(hid)`: a cached record with
\* no reset due is returned; otherwise the stored records are loaded
GetCurrentCaps(r) ==
  /\ rdPc[r] = "idle"
  /\ ops < MaxOps
  /\ ops' = ops + 1
  /\ \E t \in ClockReads :
       /\ ReadClock(t)
       /\ IF capsCache # NoCache /\ ~needsReset(capsCache, t)
          THEN /\ lastRead' = [ran |-> TRUE, t |-> t, before |-> capsStore,
                               caps |-> capsCache, store |-> capsStore]
               /\ UNCHANGED readVars
          ELSE /\ rdPc' = [rdPc EXCEPT ![r] = "loaded"]
               /\ rdLoc' = [rdLoc EXCEPT ![r] = [now |-> t, caps |-> capsStore]]
               /\ UNCHANGED lastRead
  /\ UNCHANGED <<calls, engine, dbVars, read_only, capsVars, memVars, ctxReadOnly, events,
                 pc, loc, incVars, scanReport, effects, purgeCutoff, overlapped, lastAppend,
                 mintVars, reportVars, scored, sigVars>>

\* getCurrentCaps after the load: applyResets on the loaded record; when a
\* reset occurred saveCaps writes the record, else it is cached and returned
GetCurrentCapsLoaded(r) ==
  /\ rdPc[r] = "loaded"
  /\ LET caps == applyResets(rdLoc[r].caps, rdLoc[r].now)
         reset == needsReset(rdLoc[r].caps, rdLoc[r].now)
     IN IF reset
        THEN /\ capsStore' = caps
             /\ rdPc' = [rdPc EXCEPT ![r] = "saved"]
             /\ rdLoc' = [rdLoc EXCEPT ![r].caps = caps]
             /\ UNCHANGED <<capsCache, lastRead>>
        ELSE /\ capsCache' = caps
             /\ rdPc' = [rdPc EXCEPT ![r] = "idle"]
             /\ rdLoc' = [rdLoc EXCEPT ![r] = IdleRead]
             /\ lastRead' = [ran |-> TRUE, t |-> rdLoc[r].now, before |-> capsStore,
                             caps |-> caps, store |-> capsStore]
             /\ UNCHANGED capsStore
  /\ UNCHANGED <<now, ticks, calls, ops, engine, dbVars, read_only, memVars, ctxReadOnly,
                 events, pc, loc, incVars, scanReport, effects, purgeCutoff, overlapped,
                 lastAppend, mintVars, reportVars, scored, sigVars>>

\* getCurrentCaps after `await this.saveCaps(hid, caps)`: the record is cached
\* and returned
GetCurrentCapsSaved(r) ==
  /\ rdPc[r] = "saved"
  /\ capsCache' = rdLoc[r].caps
  /\ rdPc' = [rdPc EXCEPT ![r] = "idle"]
  /\ rdLoc' = [rdLoc EXCEPT ![r] = IdleRead]
  /\ lastRead' = [ran |-> TRUE, t |-> rdLoc[r].now, before |-> capsStore,
                  caps |-> rdLoc[r].caps, store |-> capsStore]
  /\ UNCHANGED <<now, ticks, calls, ops, engine, dbVars, read_only, capsStore, memVars,
                 ctxReadOnly, events, pc, loc, incVars, scanReport, effects, purgeCutoff,
                 overlapped, lastAppend, mintVars, reportVars, scored, sigVars>>

NextCache ==
  \/ NewCapsTracker
  \/ \E r \in Procs : GetCurrentCaps(r)
  \/ \E r \in Procs : GetCurrentCapsLoaded(r)
  \/ \E r \in Procs : GetCurrentCapsSaved(r)
  \/ \E p \in Procs : IncrementCaps(p)
  \/ \E p \in Procs : IncrementApply(p)

SpecCache == Init /\ [][NextCache]_vars

\* ------------------------------------------------------------------------
\* Scores over committed segments of every type and payload (state.js)
\* ------------------------------------------------------------------------
\* the numbers a payload's scores field carries
ScoreValues == {-5, 50, 99, 150}

\* payload.scores: absent, or an object with rich, business or both as numbers
ScoresFields ==
  {sc \in [richSet : BOOLEAN, rich : ScoreValues \cup {0},
           businessSet : BOOLEAN, business : ScoreValues \cup {0}] :
     /\ (sc.richSet <=> sc.rich # 0)
     /\ (sc.businessSet <=> sc.business # 0)}

\* the segments a caller commits: type and payload
ScoredSegments ==
  {sta \in [type : {"chat.user", "biz.decision", "biz.outcome"},
            payload : [chatId : {"hakim"}, decision : {"null", "ACCEPT"},
                       outcome : {"null", "SUCCESS"}, scores : ScoresFields]] :
     /\ (sta.payload.decision # "null" => sta.type = "biz.decision")
     /\ (sta.payload.outcome # "null" => sta.type = "biz.outcome")}

\* appendSTA's `this.updateScores(sta)` for a committed segment
UpdateScores ==
  /\ ops < MaxOps
  /\ ops' = ops + 1
  /\ \E sta \in ScoredSegments :
       LET sc == updateScores(sta, richScore, businessScore) IN
       /\ richScore' = sc.rich
       /\ businessScore' = sc.business
       /\ scored' = sta
  /\ UNCHANGED <<now, ticks, calls, engine, dbVars, read_only, capsVars, memMessages,
                 ctxReadOnly, events, pc, loc, incVars, scanReport, effects, histVars,
                 mintVars, reportVars, readVars, sigVars>>

NextScores == UpdateScores

SpecScores == Init /\ [][NextScores]_vars

\* ------------------------------------------------------------------------
\* Capsule minting (tvm.js)
\* ------------------------------------------------------------------------
\* CapsuleManager.createCapsule: the capsule is stored and handed to the caller
CreateCapsule(c) ==
  /\ capsules[c] = NoCapsule
  /\ \E rich \in RichScores :
       LET pending == [status |-> "pending", richScore |-> rich]
           capsule == [pending EXCEPT !.status = IF checkEligibility(pending).eligible
                                                 THEN "pending" ELSE "rejected"]
       IN /\ capsules' = [capsules EXCEPT ![c] = capsule]
          /\ held' = [held EXCEPT ![c] = capsule]
  /\ UNCHANGED <<now, ticks, calls, ops, engine, dbVars, read_only, capsVars, memVars,
                 ctxReadOnly, events, pc, loc, incVars, scanReport, effects, histVars,
                 tvmBalance, mintPc, mintLoc, reportVars, extVars>>

\* CapsuleManager.getCapsule: the application reads the stored capsule again
GetCapsule(c) ==
  /\ capsules[c] # NoCapsule
  /\ held[c] # capsules[c]
  /\ held' = [held EXCEPT ![c] = capsules[c]]
  /\ UNCHANGED <<now, ticks, calls, ops, engine, dbVars, read_only, capsVars, memVars,
                 ctxReadOnly, events, pc, loc, incVars, scanReport, effects, histVars,
                 capsules, tvmBalance, mintPc, mintLoc, reportVars, extVars>>

MintRefused(p, c, reason) ==
  /\ mintLoc' = [mintLoc EXCEPT ![p] = [capsule |-> c,
                    wasMinted |-> capsules[c].status = "minted",
                    result |-> [ok |-> FALSE, reason |-> reason, seq |-> 0, balance |-> 0]]]
  /\ UNCHANGED <<mintPc, pc, loc, overlapped, effects>>

\* mintTVM with a capsule object the application holds, up to the first await
\* of state.commitAction(STA_TYPES.CAPSULE_MINT, ...)
MintTVM(p) ==
  /\ mintPc[p] = "idle"
  /\ pc[p] \in {"idle", "done"}
  /\ calls < MaxCalls
  /\ calls' = calls + 1
  /\ \E c \in Capsules :
       /\ held[c] # NoCapsule
       /\ IF held[c].status # "pending"
          THEN MintRefused(p, c, "Capsule status is " \o held[c].status)
          ELSE IF ~checkEligibility(held[c]).eligible
          THEN MintRefused(p, c, checkEligibility(held[c]).reason)
          ELSE /\ mintPc' = [mintPc EXCEPT ![p] = "commit"]
               /\ mintLoc' = [mintLoc EXCEPT ![p] =
                    [IdleMint EXCEPT !.capsule = c,
                       !.wasMinted = capsules[c].status = "minted"]]
               /\ pc' = [pc EXCEPT ![p] = "getLen"]
               /\ loc' = [loc EXCEPT ![p] =
                    [IdleLoc EXCEPT !.type = "capsule.mint", !.prevHash = chain_head,
                       !.latched = isReadOnlyMode]]
               /\ overlapped' = (overlapped \ {p}) \cup (InFlight \ {p})
               /\ effects' = [effects EXCEPT ![p] = {}]
  /\ UNCHANGED <<now, ticks, ops, engine, dbVars, read_only, capsVars, memVars, ctxReadOnly,
                 events, incVars, scanReport, purgeCutoff, lastRead, lastAppend,
                 capsules, held, tvmBalance, reportVars, extVars>>

\* `if (!result.ok) return`, else `await capsuleManager.markMinted(capsule.id, result.seq)`:
\* the stored capsule is read and put back with status 'minted'
MarkMinted(p) ==
  /\ mintPc[p] = "commit"
  /\ pc[p] = "done"
  /\ IF ~loc[p].result.ok
     THEN /\ mintPc' = [mintPc EXCEPT ![p] = "idle"]
          /\ mintLoc' = [mintLoc EXCEPT ![p].result =
                          [ok |-> FALSE, reason |-> loc[p].result.reason, seq |-> 0,
                           balance |-> 0]]
          /\ UNCHANGED capsules
     ELSE /\ mintPc' = [mintPc EXCEPT ![p] = "add"]
          /\ capsules' = [capsules EXCEPT ![mintLoc[p].capsule].status = "minted"]
          /\ UNCHANGED mintLoc
  /\ UNCHANGED <<now, ticks, calls, ops, engine, dbVars, read_only, capsVars, memVars,
                 ctxReadOnly, events, pc, loc, incVars, scanReport, effects, histVars,
                 held, tvmBalance, reportVars, extVars>>

\* `await balanceManager.addBalance(capsule.ownerHid, TVM_PER_CAPSULE)` (one
\* readwrite transaction), and the return
AddBalance(p) ==
  /\ mintPc[p] = "add"
  /\ tvmBalance' = tvmBalance + TVM_PER_CAPSULE
  /\ mintPc' = [mintPc EXCEPT ![p] = "idle"]
  /\ mintLoc' = [mintLoc EXCEPT ![p].result =
                  [ok |-> TRUE, reason |-> "none", seq |-> loc[p].result.seq,
                   balance |-> tvmBalance + TVM_PER_CAPSULE]]
  /\ UNCHANGED <<now, ticks, calls, ops, engine, dbVars, read_only, capsVars, memVars,
                 ctxReadOnly, events, pc, loc, incVars, scanReport, effects, histVars,
                 capsules, held, reportVars, extVars>>

NextMint ==
  \/ \E c \in Capsules : CreateCapsule(c)
  \/ \E c \in Capsules : GetCapsule(c)
  \/ \E p \in Procs : MintTVM(p)
  \/ \E p \in Procs : GetLen(p)
  \/ \E p \in Procs : VCaps(p)
  \/ \E p \in Procs : VRate(p)
  \/ \E p \in Procs : VHash(p)
  \/ \E p \in Procs : VSeq(p)
  \/ \E p \in Procs : VNonce(p)
  \/ \E p \in Procs : AppendStep(p)
  \/ \E p \in Procs : Emit(p)
  \/ \E p \in Procs : MarkMinted(p)
  \/ \E p \in Procs : AddBalance(p)

SpecMint == Init /\ [][NextMint]_vars

\* ------------------------------------------------------------------------
\* The restore check
\* ------------------------------------------------------------------------
RestoreHeads == {GENESIS_HASH, <<"sha256", "X">>, <<"sha256", "Y">>}

\* the backupData arguments
Backups == [chainLen : 0..MaxLen, chainHead : RestoreHeads]

\* the currentState arguments: null, or a chain state
CurrentStates ==
  {NullState} \cup [isNull : {FALSE}, chainLen : 0..MaxLen, chainHead : RestoreHeads]

VerifyBackupRestoreEligibility ==
  /\ \E backupData \in Backups, currentState \in CurrentStates :
       restoreReport' = [ran |-> TRUE, backupData |-> backupData,
                         currentState |-> currentState,
                         result |-> verifyBackupRestoreEligibility(backupData, currentState)]
  /\ UNCHANGED <<now, ticks, calls, ops, engine, dbVars, read_only, capsVars, memVars,
                 ctxReadOnly, events, pc, loc, incVars, scanReport, effects, histVars,
                 mintVars, cloneReport, integrityReport, tampered, extVars>>

NextRestore == VerifyBackupRestoreEligibility

SpecRestore == Init /\ [][NextRestore]_vars

\* ------------------------------------------------------------------------
\* The clone check, beside the commits of one caller
\* ------------------------------------------------------------------------
\* the segments another device sends: of either identity, for a seq the chain
\* can hold, signed by their author
IncomingSegments ==
  {signSegment(createSegment(hid, IF seq = 1 THEN GENESIS_HASH ELSE BOGUS_HASH, seq, type,
                             DefaultPayload, NoRef, now, nonce), hid) :
     hid \in {HID, OTHER_HID}, seq \in 1..MaxCalls, type \in {"chat.user", "ai.advice"},
     nonce \in Nonces}

DetectClonedDevice ==
  /\ \E incomingSegment \in IncomingSegments :
       cloneReport' = [ran |-> TRUE, incoming |-> incomingSegment,
                       local |-> getSTABySeq(incomingSegment.seq),
                       result |-> detectClonedDevice(incomingSegment)]
  /\ UNCHANGED <<now, ticks, calls, ops, engine, dbVars, read_only, capsVars, memVars,
                 ctxReadOnly, events, pc, loc, incVars, scanReport, effects, histVars,
                 mintVars, restoreReport, integrityReport, tampered, extVars>>

NextClone ==
  \/ CommitAction(1)
  \/ GetLen(1)
  \/ VCaps(1)
  \/ VRate(1)
  \/ VHash(1)
  \/ VSeq(1)
  \/ VNonce(1)
  \/ AppendStep(1)
  \/ Emit(1)
  \/ DetectClonedDevice

SpecClone == Init /\ [][NextClone]_vars

\* ------------------------------------------------------------------------
\* The full scan, on a database that can be altered behind the program
\* ------------------------------------------------------------------------
\* the payload an altered segment carries
ALTERED_PAYLOAD == [DefaultPayload EXCEPT !.chatId = "altered"]

\* the payload of the stored segment k is altered in the database, and the
\* segment is not signed again
AlterPayload(k) ==
  /\ k \notin tampered
  /\ \E s \in chain :
       /\ s.seq = k
       /\ chain' = (chain \ {s}) \cup {[s EXCEPT !.payload = ALTERED_PAYLOAD]}
  /\ tampered' = tampered \cup {k}
  /\ UNCHANGED <<now, ticks, calls, ops, engine, syncLog, messages, chain_head, chain_len,
                 read_only, capsVars, memVars, ctxReadOnly, events, pc, loc, incVars,
                 scanReport, effects, histVars, mintVars, restoreReport, cloneReport,
                 integrityReport, extVars>>

\* the meta entry chain_head is overwritten in the database
AlterHead ==
  /\ chain_head # BOGUS_HASH
  /\ chain_head' = BOGUS_HASH
  /\ UNCHANGED <<now, ticks, calls, ops, engine, chain, syncLog, messages, chain_len,
                 read_only, capsVars, memVars, ctxReadOnly, events, pc, loc, incVars,
                 scanReport, effects, histVars, mintVars, reportVars, extVars>>

\* verifyChainIntegrity(db) with verifySignatures, as scanForCorruption runs it
VerifyChainIntegrity ==
  /\ integrityReport' = [ran |-> TRUE, chainLen |-> chain_len, storedHead |-> chain_head,
                          altered |-> tampered, result |-> verifyChainIntegrity]
  /\ UNCHANGED <<now, ticks, calls, ops, engine, dbVars, read_only, capsVars, memVars,
                 ctxReadOnly, events, pc, loc, incVars, scanReport, effects, histVars,
                 mintVars, restoreReport, cloneReport, tampered, extVars>>

NextScan ==
  \/ CommitAction(1)
  \/ GetLen(1)
  \/ VCaps(1)
  \/ VRate(1)
  \/ VHash(1)
  \/ VSeq(1)
  \/ VNonce(1)
  \/ AppendStep(1)
  \/ Emit(1)
  \/ \E k \in 1..MaxCalls : AlterPayload(k)
  \/ AlterHead
  \/ VerifyChainIntegrity

SpecScan == Init /\ [][NextScan]_vars

\* ------------------------------------------------------------------------
\* The latch over the life of an application context (index.js, integrity.js)
\* ------------------------------------------------------------------------
NextLatch ==
  \/ CommitAction(1)
  \/ GetLen(1)
  \/ VCaps(1)
  \/ VRate(1)
  \/ VHash(1)
  \/ VSeq(1)
  \/ VNonce(1)
  \/ AppendStep(1)
  \/ Emit(1)
  \/ AlterHead
  \/ InitializeApp
  \/ EnterReadOnlyMode
  \/ ExitReadOnlyMode

SpecLatch == Init /\ [][NextLatch]_vars

\* ------------------------------------------------------------------------
\* The signal client (signal.js): one action per call and per event handler;
\* x is the pair [c |-> client, e |-> loop] a handler works on
\* ------------------------------------------------------------------------
RECURSIVE Pow2(_)
Pow2(n) == IF n <= 0 THEN 1 ELSE 2 * Pow2(n - 1)

\* the delay scheduleReconnect computes for reconnectAttempts = n
Backoff(n) ==
  IF RECONNECT_BASE_DELAY * Pow2(n - 1) < RECONNECT_MAX_DELAY
  THEN RECONNECT_BASE_DELAY * Pow2(n - 1) ELSE RECONNECT_MAX_DELAY

\* a reconnect scheduler that sets a timer whether or not one is pending
scheduleReconnect_unguarded(x) ==
  [c |-> [x.c EXCEPT !.reconnectAttempts = @ + 1, !.state = "reconnecting",
                     !.reconnectTimer = TRUE],
   e |-> [x.e EXCEPT !.timers = @ + 1, !.delay = Backoff(x.c.reconnectAttempts + 1),
                     !.scheduled = @ + 1]]

scheduleReconnect(x) ==
  IF x.c.reconnectTimer THEN x
  ELSE [c |-> [x.c EXCEPT !.reconnectAttempts = @ + 1, !.state = "reconnecting",
                          !.reconnectTimer = TRUE],
        e |-> [x.e EXCEPT !.timers = @ + 1, !.delay = Backoff(x.c.reconnectAttempts + 1),
                          !.scheduled = @ + 1]]

stopHeartbeat(x) ==
  [c |-> [x.c EXCEPT !.heartbeatTimer = FALSE, !.heartbeatPending = FALSE],
   e |-> [x.e EXCEPT !.hbElapsed = 0, !.pingAge = 0]]

startHeartbeat(x) == [stopHeartbeat(x) EXCEPT !.c.heartbeatTimer = TRUE]

\* this.ws?.readyState === WebSocket.OPEN, with the sockets sk
wsOpen(c, sk) == c.ws # 0 /\ sk[c.ws].ready = "OPEN"

\* flushQueue: every queued message is shifted off and handed to sendRaw
flushQueue(x, sk) ==
  [c |-> [x.c EXCEPT !.messageQueue = <<>>],
   e |-> [x.e EXCEPT !.transmitted = IF wsOpen(x.c, sk) THEN @ \o x.c.messageQueue ELSE @]]

\* an onopen handler that leaves the attempt counter as it is
onopen_keepAttempts(x, sk) ==
  flushQueue(startHeartbeat([x EXCEPT !.c.state = "connected", !.e.scheduled = 0]), sk)

\* ws.onopen
onopen(x, sk) ==
  flushQueue(startHeartbeat([x EXCEPT !.c.state = "connected", !.c.reconnectAttempts = 0,
                                      !.e.scheduled = 0]), sk)

\* ws.onerror, and the catch of the reconnect timer's callback when the
\* connect promise it awaits is rejected
onerror(x, awaited) ==
  IF x.c.state = "connecting" /\ awaited THEN scheduleReconnect(x) ELSE x

\* a close handler that schedules a reconnect after every unclean close
onclose_always(x, wasClean) ==
  LET y == [stopHeartbeat(x) EXCEPT !.c.state = "disconnected"] IN
  IF ~wasClean THEN scheduleReconnect(y) ELSE y

\* ws.onclose
onclose(x, wasClean) ==
  LET y == [stopHeartbeat(x) EXCEPT !.c.state = "disconnected"] IN
  IF y.c.shouldReconnect /\ ~wasClean THEN scheduleReconnect(y) ELSE y

\* the slot of the next WebSocket object
FreeSocket == CHOOSE s \in Sockets : socks[s].ready = "none"
               /\ \A r \in Sockets : socks[r].ready = "none" => s <= r

\* connect(hid) past the state check: a new WebSocket in state connecting
Connecting(x, awaited) ==
  /\ \E s \in Sockets : socks[s].ready = "none"
  /\ socks' = [socks EXCEPT ![FreeSocket] =
                 [NoSocket EXCEPT !.ready = "CONNECTING", !.awaited = awaited]]
  /\ client' = [x.c EXCEPT !.shouldReconnect = TRUE, !.state = "connecting",
                           !.ws = FreeSocket]

\* connect(hid), called by the application
Connect ==
  /\ client.state \notin {"connected", "connecting"}
  /\ client.reconnectAttempts < MaxAttempts
  /\ Connecting([c |-> client, e |-> loop], FALSE)
  /\ loop' = [loop EXCEPT !.stopped = "no"]
  /\ UNCHANGED coreVars

\* the reconnect timeout fires: reconnectTimer = null, `await this.connect(this.hid)`
ReconnectTimerFires ==
  /\ loop.timers > 0
  /\ client.reconnectAttempts < MaxAttempts
  /\ LET x == [c |-> [client EXCEPT !.reconnectTimer = FALSE],
               e |-> [loop EXCEPT !.timers = @ - 1,
                                  !.delay = IF loop.timers = 1 THEN 0 ELSE @]]
     IN /\ loop' = x.e
        /\ IF x.c.state \in {"connected", "connecting"}
           THEN client' = x.c /\ UNCHANGED socks
           ELSE Connecting(x, TRUE)
  /\ UNCHANGED coreVars

\* disconnect()
Disconnect ==
  /\ loop.stopped = "no" \/ client.state # "disconnected"
  /\ LET x == stopHeartbeat([c |-> client, e |-> loop]) IN
     /\ client' = [x.c EXCEPT !.shouldReconnect = FALSE, !.reconnectTimer = FALSE,
                              !.ws = 0, !.state = "disconnected"]
     /\ loop' = [x.e EXCEPT !.timers = IF client.reconnectTimer THEN @ - 1 ELSE @,
                            !.delay = IF client.reconnectTimer /\ loop.timers = 1
                                      THEN 0 ELSE @,
                            !.stopped = client.state]
     /\ socks' = IF client.ws # 0 /\ socks[client.ws].ready # "none"
                 THEN [socks EXCEPT ![client.ws].ready = "CLOSING",
                                    ![client.ws].requested = TRUE]
                 ELSE socks
  /\ UNCHANGED coreVars

\* send(message): handed to the socket when connected and open, else queued
Send ==
  /\ Len(loop.accepted) < MaxMsgs
  /\ LET message == Len(loop.accepted) + 1 IN
     IF client.state = "connected" /\ wsOpen(client, socks)
     THEN /\ loop' = [loop EXCEPT !.accepted = Append(@, message),
                                  !.transmitted = Append(@, message)]
          /\ UNCHANGED client
     ELSE /\ loop' = [loop EXCEPT !.accepted = Append(@, message)]
          /\ client' = [client EXCEPT !.messageQueue = Append(@, message)]
  /\ UNCHANGED <<socks, coreVars>>

\* the open event of a socket: ws.onopen runs and the connect promise resolves
SocketOpen(s) ==
  /\ socks[s].ready = "CONNECTING"
  /\ socks' = [socks EXCEPT ![s].ready = "OPEN", ![s].opened = TRUE, ![s].awaited = FALSE]
  /\ LET x == onopen([c |-> client, e |-> loop], socks') IN
     client' = x.c /\ loop' = x.e
  /\ UNCHANGED coreVars

\* a socket ends: the error event when it failed (ws.onerror, then the
\* rejected promise's handler), then the close event (ws.onclose). A socket
\* that never opened ends with an error; wasClean says whether the closing
\* handshake completed.
SocketClose(s) ==
  /\ socks[s].ready # "none"
  /\ \E wasClean \in BOOLEAN, error \in BOOLEAN :
       /\ ~socks[s].opened => (error /\ ~wasClean)
       /\ error => ~wasClean
       /\ LET x0 == [c |-> client, e |-> loop]
              x1 == IF error THEN onerror(x0, socks[s].awaited) ELSE x0
              x2 == onclose(x1, wasClean)
          IN /\ client' = x2.c
             /\ loop' = [x2.e EXCEPT !.doubled = /\ error
                                                 /\ socks[s].awaited
                                                 /\ client.state = "connecting"
                                                 /\ client.shouldReconnect]
  /\ socks' = [socks EXCEPT ![s] = NoSocket]
  /\ UNCHANGED coreVars

\* time passes while the heartbeat interval is set; the interval's callback
\* runs when HEARTBEAT_INTERVAL has passed
TimePasses ==
  /\ client.heartbeatTimer
  /\ loop.hbElapsed < HEARTBEAT_INTERVAL
  /\ loop' = [loop EXCEPT !.hbElapsed = @ + HEARTBEAT_TIMEOUT,
                          !.pingAge = IF client.heartbeatPending /\ wsOpen(client, socks)
                                      THEN @ + HEARTBEAT_TIMEOUT ELSE @]
  /\ UNCHANGED <<client, socks, coreVars>>

\* the callback of startHeartbeat's setInterval
HeartbeatTick ==
  /\ client.heartbeatTimer
  /\ loop.hbElapsed = HEARTBEAT_INTERVAL
  /\ IF client.heartbeatPending
     THEN /\ socks' = IF client.ws # 0 /\ socks[client.ws].ready # "none"
                      THEN [socks EXCEPT ![client.ws].ready = "CLOSING",
                                         ![client.ws].timedOut = TRUE]
                      ELSE socks
          /\ loop' = [loop EXCEPT !.hbElapsed = 0]
          /\ UNCHANGED client
     ELSE /\ client' = [client EXCEPT !.heartbeatPending = TRUE]
          /\ loop' = [loop EXCEPT !.hbElapsed = 0, !.pingAge = 0]
          /\ UNCHANGED socks
  /\ UNCHANGED coreVars

\* handleMessage, case 'pong': the server answers the ping on the open socket
Pong ==
  /\ client.heartbeatPending
  /\ wsOpen(client, socks)
  /\ client' = [client EXCEPT !.heartbeatPending = FALSE, !.lastPong = 1]
  /\ loop' = [loop EXCEPT !.pingAge = 0]
  /\ UNCHANGED <<socks, coreVars>>

NextSignal ==
  \/ Connect
  \/ ReconnectTimerFires
  \/ Disconnect
  \/ Send
  \/ \E s \in Sockets : SocketOpen(s)
  \/ \E s \in Sockets : SocketClose(s)
  \/ TimePasses
  \/ HeartbeatTick
  \/ Pong

SpecSignal == Init /\ [][NextSignal]_vars

\* ------------------------------------------------------------------------
\* Properties
\* ------------------------------------------------------------------------
\* the stored segment with the highest seq
LastStored == CHOOSE s \in chain : \A x \in chain : x.seq <= s.seq

\* C1: after any sequence of commits, concurrent ones included, the stored
\* segment at every position k in 1..chain_len has seq = k, its prev_hash is
\* the hash of the stored segment k-1 (GENESIS for k = 1), and its signature
\* verifies.
ChainLinked ==
  \A k \in 1..chain_len :
    LET s == getSTABySeq(k) IN
    /\ s # NoSeg
    /\ s.seq = k
    /\ s.prev_hash = (IF k = 1 THEN GENESIS_HASH ELSE computeSegmentHash(getSTABySeq(k - 1)))
    /\ validateSignature(s) = "ok"

\* two commits have been appended, the second linked to the first
ChainLinkedWitness == chain_len = 2 /\ Cardinality(chain) = 2

\* C2: commits are linearized: between a commit's head read and its head
\* write no other commit's head read or head write takes effect.
CommitsLinearized == ~(lastAppend.metaOk /\ lastAppend.overlap)

\* C3: the records one commit writes (segment, nonce-log entry, message
\* projection, chain_head and chain_len) are all present or all absent in
\* every persisted state.
AppendAllOrNothing ==
  /\ \A s \in chain :
       /\ [nonce |-> s.nonce, ts |-> s.timestamp] \in syncLog
       /\ isMessageType(s.type) => createMessageProjection(s) \in messages
       /\ s.seq <= chain_len
       /\ s.seq = chain_len => chain_head = computeSegmentHash(s)
  /\ \A e \in syncLog : \E s \in chain : s.nonce = e.nonce
  /\ \A m \in messages : \E s \in chain : m = createMessageProjection(s)

\* C4: no exported operation adds a segment to the stored chain unless the
\* segment passes the nine-rule validator against the chain state it is
\* appended to.
AppendsGated == lastAppend.stored => lastAppend.valid

\* C5: in every persisted state chain_head is the hash of the last stored
\* segment and chain_len is its seq; GENESIS and 0 when the chain is empty.
HeadMatchesChain ==
  IF chain = {} THEN chain_head = GENESIS_HASH /\ chain_len = 0
  ELSE chain_head = computeSegmentHash(LastStored) /\ chain_len = LastStored.seq

\* C6: while the read-only latch is set, every commit, through every entry
\* point, returns {ok: false, reason: "read_only_mode"} and appends nothing.
LatchedCommitsRefused ==
  \A p \in Procs :
    (pc[p] = "done" /\ loc[p].latched) => loc[p].result.reason = "read_only_mode"

\* C7: when a full corruption scan classifies the severity as critical or
\* major, the read-only latch is set by the time the scan has finished.
ScanLatches == scanReport.severity \in {"critical", "major"} => scanReport.latched

\* C8 (as amended): a commit that fails validation returns {ok: false, reason}
\* and its steps leave the chain, the nonce log, the meta entries and the
\* in-memory projections and scores unchanged; the only change they make to
\* the caps record is the calendar reset that was due when validation read
\* the caps (no counter grows), with the caps cache refreshed to match.
ValidationFailureFrame ==
  \A p \in Procs :
    (pc[p] = "done" /\ loc[p].result.reason \in VALIDATION_REASONS)
      => (~loc[p].result.ok /\ effects[p] \subseteq {"caps_reset", "caps_cache"})

\* a commit failed validation after its caps read persisted a calendar reset
ValidationFailureWitness ==
  \E p \in Procs :
    /\ pc[p] = "done"
    /\ loc[p].result.reason \in VALIDATION_REASONS
    /\ "caps_reset" \in effects[p]

\* C8 as stated: a commit that fails validation leaves every piece of state,
\* the caps record included, unchanged.
ValidationFailureNoEffect ==
  \A p \in Procs :
    (pc[p] = "done" /\ loc[p].result.reason \in VALIDATION_REASONS)
      => (~loc[p].result.ok /\ effects[p] \subseteq {"caps_cache"})

\* no two stored segments share a nonce
NoncesUnique == \A s1, s2 \in chain : s1.nonce = s2.nonce => s1 = s2

\* C9 (as amended): no two stored segments share a nonce, and the nonce of
\* every stored segment is in the nonce log unless the segment's timestamp is
\* at or before the cutoff of a nonce purge that has run.
NoncesUniqueAndLoggedUnlessPurged ==
  /\ NoncesUnique
  /\ \A s \in chain : nonceExists(s.nonce) \/ TimeLE(s.timestamp, purgeCutoff)

\* two segments are stored and a purge has removed the nonce of one of them
NoncePurgedWitness ==
  /\ Cardinality(chain) = 2
  /\ \E s \in chain : ~nonceExists(s.nonce) /\ TimeLE(s.timestamp, purgeCutoff)

\* C9 as stated: no two stored segments share a nonce, and the nonce of every
\* stored segment is in the nonce log.
NoncesUniqueAndLogged ==
  /\ NoncesUnique
  /\ \A s \in chain : nonceExists(s.nonce)

\* C10: the daily, monthly and yearly counters never exceed 3600, 36000 and
\* 120000, under any interleaving of commits, increments and reads.
CapsBounded ==
  /\ capsStore.daily <= DAILY_CAP
  /\ capsStore.monthly <= MONTHLY_CAP
  /\ capsStore.yearly <= YEARLY_CAP
  /\ capsCache.daily <= DAILY_CAP
  /\ capsCache.monthly <= MONTHLY_CAP
  /\ capsCache.yearly <= YEARLY_CAP

\* C11: after the clock has crossed a daily, monthly or yearly boundary, the
\* next read of the caps shows that counter as zero with its reset timestamp
\* advanced to a boundary strictly after the time of the read, and the
\* record it shows is the persisted one.
ResetOnRead ==
  lastRead.ran =>
    /\ TimeLE(lastRead.before.dailyReset, lastRead.t)
         => (lastRead.caps.daily = 0 /\ ~TimeLE(lastRead.caps.dailyReset, lastRead.t))
    /\ TimeLE(lastRead.before.monthlyReset, lastRead.t)
         => (lastRead.caps.monthly = 0 /\ ~TimeLE(lastRead.caps.monthlyReset, lastRead.t))
    /\ TimeLE(lastRead.before.yearlyReset, lastRead.t)
         => (lastRead.caps.yearly = 0 /\ ~TimeLE(lastRead.caps.yearlyReset, lastRead.t))
    /\ needsReset(lastRead.before, lastRead.t) => lastRead.store = lastRead.caps

\* a read after the year boundary found counters above zero and showed them
\* as zero, with the three reset timestamps in the year that began
ResetOnReadWitness ==
  /\ lastRead.ran
  /\ lastRead.before.daily > 0
  /\ TimeLE(lastRead.before.yearlyReset, lastRead.t)
  /\ lastRead.caps.daily = 0
  /\ lastRead.caps.yearly = 0
  /\ lastRead.caps.dailyReset = Time(366, 0)
  /\ lastRead.caps.monthlyReset = Time(365 + 31, 0)
  /\ lastRead.caps.yearlyReset = Time(365 + 365, 0)

\* C12: under any interleaving of commits, every stored segment k >= 2 with
\* the author of segment k-1 has a timestamp at least 1000 ms after that of
\* segment k-1 (and so not more than 720000 ms before it).
BlockIntervalKept ==
  \A s \in chain :
    LET prev == getSTABySeq(s.seq - 1) IN
    (s.seq >= 2 /\ prev # NoSeg /\ prev.author.hid = s.author.hid)
      => /\ ~DiffLess(s.timestamp, prev.timestamp, MIN_BLOCK_INTERVAL_MS)
         /\ ~DiffLess(s.timestamp, prev.timestamp, 0 - UTC_TOLERANCE_MS)

\* two segments of one author are stored, exactly 1000 ms apart
BlockIntervalWitness ==
  /\ \E s \in chain :
       /\ s.seq = 2
       /\ getSTABySeq(1) # NoSeg
       /\ getSTABySeq(1).author.hid = s.author.hid
       /\ s.timestamp = TimeAdd(getSTABySeq(1).timestamp, MIN_BLOCK_INTERVAL_MS)

\* C13: a commit event {type, seq, head} is emitted only for a commit whose
\* transaction has committed, and after that transaction commits; a commit
\* that fails or aborts emits no event.
EventsFollowCommits ==
  /\ \A e \in events :
       \E s \in chain :
         /\ s.seq = e.seq
         /\ s.type = e.type
         /\ computeSegmentHash(s) = e.head
         /\ e.seq <= chain_len
  /\ \A p \in Procs :
       /\ "event" \in effects[p] => "db" \in effects[p]
       /\ (pc[p] = "done" /\ ~loc[p].result.ok) => "event" \notin effects[p]

\* a commit has emitted its event, and another commit has failed on the append
EventsWitness ==
  /\ \E e \in events : e.seq = 1 /\ e.type = "chat.user" /\ chain_head = e.head
  /\ \E p \in Procs : pc[p] = "done" /\ loc[p].result.reason = "append_error"

\* C14: a reader of the projections sees the effect of a commit only once
\* the commit's transaction has committed: every message of the in-memory
\* projection belongs to a stored segment that the persisted projection and
\* the chain length include.
ProjectionsShowCommitted ==
  \A i \in 1..Len(memMessages) :
    /\ \E m \in messages : m.id = memMessages[i]
    /\ \E s \in chain : <<s.seq, s.nonce>> = memMessages[i] /\ s.seq <= chain_len

\* rebuildProjections on the stored chain: the message list and the scores
Rebuilt ==
  IF chain_len = 0 THEN [messages |-> <<>>, rich |-> 0, business |-> 0]
  ELSE LET sc == RebuildScores(chain, [rich |-> 0, business |-> 0]) IN
       [messages |-> RebuildMessages(chain, <<>>), rich |-> sc.rich,
        business |-> sc.business]

\* C15: after any sequence of commits, rebuilding the projections from the
\* stored chain yields the message lists and the scores that were built
\* incrementally during those commits.
RebuildEqualsIncremental ==
  InFlight = {} =>
    /\ Rebuilt.messages = memMessages
    /\ Rebuilt.rich = richScore
    /\ Rebuilt.business = businessScore

\* the capsules of the identity whose stored status is minted
MintedCapsules == {c \in Capsules : capsules[c].status = "minted"}

\* C16: while no mint is under way, the TVM balance of the identity is the
\* number of its capsules whose status is minted, times TVM_PER_CAPSULE,
\* whatever mint attempts were made.
BalanceEqualsMinted ==
  (\A p \in Procs : mintPc[p] = "idle") =>
    tvmBalance = TVM_PER_CAPSULE * Cardinality(MintedCapsules)

\* the claimed condition of an allowed restore
RestoreAllowed(backupData, currentState) ==
  \/ currentState.isNull
  \/ currentState.chainLen = 0
  \/ /\ backupData.chainLen >= currentState.chainLen
     /\ backupData.chainHead = currentState.chainHead

\* C17: the restore check allows a restore (canRestore, no sync required)
\* exactly when the current chain is empty or absent, or the backup is not
\* shorter than the current chain and the heads are equal; otherwise it
\* refuses and requires a sync.
RestoreEligibility ==
  restoreReport.ran =>
    LET r == restoreReport.result IN
    IF RestoreAllowed(restoreReport.backupData, restoreReport.currentState)
    THEN r.canRestore /\ ~r.requiresSync
    ELSE ~r.canRestore /\ r.requiresSync

\* a backup longer than a non-empty current chain with the same head was allowed
RestoreEligibilityWitness ==
  /\ restoreReport.ran
  /\ ~restoreReport.currentState.isNull
  /\ restoreReport.currentState.chainLen > 0
  /\ restoreReport.backupData.chainLen > restoreReport.currentState.chainLen
  /\ restoreReport.backupData.chainHead = restoreReport.currentState.chainHead
  /\ restoreReport.result.canRestore
  /\ ~restoreReport.result.requiresSync

\* C18: an incoming segment with the seq of a stored segment and a different
\* nonce or a different signature is reported as a clone, with evidence.
ClonesReported ==
  (/\ cloneReport.ran
   /\ cloneReport.local # NoSeg
   /\ \/ cloneReport.local.nonce # cloneReport.incoming.nonce
      \/ cloneReport.local.signature # cloneReport.incoming.signature)
    => cloneReport.result.isClone /\ cloneReport.result.evidence # <<>>

ConflictLoserReason ==
  (lastAppend.stale /\ lastAppend.overlap /\ ~lastAppend.stored)
    => lastAppend.reason = "commit_error"

\* C21: every successful commit of a cap-affecting type adds exactly 1 to the
\* caps counters of the author, and no other commit writes them: once the
\* calls have returned, the total counter is the number of successful
\* cap-affecting commits, and a call wrote the counters exactly when it was
\* such a commit.
CommitsCountCaps ==
  InFlight = {} =>
    /\ capsStore.total = Cardinality({e \in events : affectsCaps(e.type)})
    /\ \A p \in Procs :
         pc[p] = "done" =>
           ("caps_write" \in effects[p] <=> (loc[p].result.ok /\ affectsCaps(loc[p].type)))

\* C22: the daily counter counts the cap-affecting commits of the UTC day (so
\* that the 3601st of a day is refused, and the first commit after midnight
\* leaves it at 1): once a cap-affecting commit has succeeded, and while the
\* counter's period is still the day of that commit, the daily counter reads
\* at least 1 and at most the cap.
DailyCounterCountsCommits ==
  \A p \in Procs :
    (/\ pc[p] = "done"
     /\ loc[p].result.ok
     /\ affectsCaps(loc[p].type)
     /\ capsStore.dailyReset = getNextDailyReset(loc[p].seg.timestamp))
      => capsStore.daily >= 1 /\ capsStore.daily <= DAILY_CAP

RateLimitBoundary ==
  (pc[1] = "done" /\ loc[1].seg.seq >= 2) =>
    LET seg == loc[1].seg
        prevSeg == getSTABySeq(seg.seq - 1)
    IN (prevSeg # NoSeg /\ prevSeg.author.hid = seg.author.hid) =>
         (loc[1].result.reason = "rate_limit"
            <=> DiffLess(seg.timestamp, prevSeg.timestamp, MIN_BLOCK_INTERVAL_MS))

\* a commit 999 ms after the previous segment was refused with rate_limit
RateLimitBoundaryWitness ==
  /\ pc[1] = "done"
  /\ loc[1].seg.seq >= 2
  /\ loc[1].result.reason = "rate_limit"
  /\ ~DiffLess(loc[1].seg.timestamp, getSTABySeq(loc[1].seg.seq - 1).timestamp,
               MIN_BLOCK_INTERVAL_MS - 1)

\* the structural check and rules 1 to 8 pass
PassesRules1to8(seg) ==
  /\ validateSegmentStructure(seg)
  /\ validateCounterRelationship(seg) = "ok"
  /\ validateCaps(getCurrentCaps(capsCache, capsStore, now).caps) = "ok"
  /\ validateRateLimit(seg) = "ok"
  /\ validateOwnerTransition(seg) = "ok"
  /\ validateHistoryHash(seg) = "ok"
  /\ validateSequence(seg) = "ok"
  /\ validateSignature(seg) = "ok"

\* C25: a segment whose nonce already appears in the nonce log is rejected
\* and is not appended: no commit reaches the append with a logged nonce, and
\* a refused commit whose nonce is logged and whose segment passes the rules
\* before rule 9 carries the reason replay_nonce.
ReplayRejected ==
  pc[1] = "done" =>
    /\ loc[1].result.reason \in {"ok", "append_error"} => ~lastAppend.replayed
    /\ (/\ loc[1].result.reason \in VALIDATION_REASONS
        /\ nonceExists(loc[1].seg.nonce)
        /\ PassesRules1to8(loc[1].seg))
         => loc[1].result.reason = "replay_nonce"

\* a commit that drew a logged nonce was refused with replay_nonce, and its
\* segment is not stored
ReplayRejectedWitness ==
  /\ pc[1] = "done"
  /\ loc[1].result.reason = "replay_nonce"
  /\ nonceExists(loc[1].seg.nonce)
  /\ loc[1].seg \notin chain

\* C26: a mint of a capsule that has already been marked minted is refused
\* with a status reason (and so changes neither the chain nor the balance).
MintedCapsuleRefused ==
  \A p \in Procs :
    mintLoc[p].wasMinted =>
      /\ mintPc[p] = "idle"
      /\ ~mintLoc[p].result.ok
      /\ mintLoc[p].result.reason = "Capsule status is minted"

\* C27: a capsule's status follows the lifecycle: a capsule is created
\* rejected when it is ineligible and pending otherwise; a rejected capsule
\* stays rejected; a pending capsule becomes minted only when a capsule.mint
\* commit for it has succeeded; a minted capsule stays minted.
CapsuleLifecycle ==
  [][\A c \in Capsules :
       LET a == capsules[c].status
           b == capsules'[c].status
       IN /\ a = "absent" =>
               \/ b = "absent"
               \/ b = (IF capsules'[c].richScore < MIN_RICH_SCORE THEN "rejected"
                       ELSE "pending")
          /\ a = "rejected" => b = "rejected"
          /\ a = "pending" =>
               \/ b = "pending"
               \/ /\ b = "minted"
                  /\ \E p \in Procs : /\ mintLoc[p].capsule = c
                                      /\ loc[p].type = "capsule.mint"
                                      /\ loc[p].result.ok
                                      /\ \E s \in chain : s.seq = loc[p].result.seq
                                                           /\ s.type = "capsule.mint"
          /\ a = "minted" => b = "minted"]_vars

\* one capsule was rejected at creation and another was minted after its commit
CapsuleLifecycleWitness ==
  \E c, d \in Capsules :
    /\ capsules[c].status = "rejected"
    /\ capsules[d].status = "minted"
    /\ \E s \in chain : s.type = "capsule.mint"

\* C28: when the payload of a stored segment k below the chain length has
\* been altered without re-signing, the full scan reports INVALID_SIGNATURE
\* at seq k and HASH_CHAIN_BROKEN at seq k + 1.
AlteredPayloadReported ==
  integrityReport.ran =>
    \A k \in integrityReport.altered :
      k < integrityReport.chainLen =>
        /\ <<k, "INVALID_SIGNATURE">> \in integrityReport.result.errors
        /\ <<k + 1, "HASH_CHAIN_BROKEN">> \in integrityReport.result.errors

\* a scan of a chain of two segments whose first payload was altered reported both
AlteredPayloadWitness ==
  /\ integrityReport.ran
  /\ integrityReport.altered = {1}
  /\ integrityReport.chainLen = 2
  /\ integrityReport.storedHead # BOGUS_HASH
  /\ <<1, "INVALID_SIGNATURE">> \in integrityReport.result.errors
  /\ <<2, "HASH_CHAIN_BROKEN">> \in integrityReport.result.errors

\* C29: the full scan reports HEAD_MISMATCH whenever the stored head differs
\* from the head computed by walking the segments up to the chain length, the
\* empty chain (computed head GENESIS) included.
HeadMismatchReported ==
  (integrityReport.ran /\ integrityReport.chainLen = 0
     /\ integrityReport.storedHead # GENESIS_HASH)
    => \E e \in integrityReport.result.errors : e[2] = "HEAD_MISMATCH"

ExplicitScoresOverride ==
  /\ scored.payload.scores.richSet => richScore = scored.payload.scores.rich
  /\ scored.payload.scores.businessSet => businessScore = scored.payload.scores.business

\* C33: richScore and businessScore stay within 0 to 100 after any sequence
\* of committed segments, whatever their payloads.
ScoresInRange ==
  /\ richScore \in 0..100
  /\ businessScore \in 0..100

\* C34: once the read-only latch has been cleared by operator action, a
\* commit through the running application context is accepted for
\* processing: it does not return read_only_mode.
UnlatchedCommitsAccepted ==
  [][\A p \in Procs :
       (CommitAction(p) /\ read_only = "cleared")
         => loc'[p].result.reason # "read_only_mode"]_vars

\* C35: after any loss of the signal connection that the client did not
\* request through disconnect(), a close triggered by a heartbeat timeout
\* included, a reconnection attempt is scheduled: when the close event of an
\* established socket that disconnect() did not close has been handled, a
\* reconnect timer is pending.
ReconnectAfterLoss ==
  [][\A s \in Sockets :
       (SocketClose(s) /\ socks[s].opened /\ ~socks[s].requested)
         => (client'.reconnectTimer /\ loop'.timers > 0)]_vars

\* C36: every message passed to send while the client is not connected is
\* queued, and the queued messages are handed to the socket on the next
\* successful connection, each exactly once and in the order they were sent:
\* the messages handed to the socket followed by the queued ones are the
\* messages passed to send, none lost.
QueuedMessagesDelivered == loop.transmitted \o client.messageQueue = loop.accepted

\* C37: reconnect delays follow exponential backoff: the n-th reconnect
\* timer set since the last successful connection waits
\* min(1000 * 2^(n-1), 30000) ms, so the delays run from 1 s to 30 s, never
\* exceed 30 s, and start again at 1 s after a successful connection.
BackoffDelays ==
  [][loop'.timers > loop.timers
       => /\ loop'.delay = Backoff(loop.scheduled + 1)
          /\ loop'.delay >= RECONNECT_BASE_DELAY
          /\ loop'.delay <= RECONNECT_MAX_DELAY
          /\ loop.scheduled = 0 => loop'.delay = RECONNECT_BASE_DELAY]_vars

\* the sixth reconnect timer in a row is pending, with the delay capped at 30 s
BackoffDelaysWitness ==
  /\ loop.timers = 1
  /\ loop.scheduled = 6
  /\ loop.delay = RECONNECT_MAX_DELAY

\* C38: the client sends a heartbeat every 30 s and treats the connection as
\* timed out when no response arrives within the 10 s response window: no
\* ping stays unanswered for longer than 10 s on a socket the client still
\* holds open.
HeartbeatWindow ==
  (client.heartbeatPending /\ wsOpen(client, socks)) => loop.pingAge <= HEARTBEAT_TIMEOUT

\* C39: after disconnect(), whatever state the client was in, no reconnect
\* timer is pending and no connection attempt is started until connect() is
\* called again.
NoReconnectAfterDisconnect ==
  [][loop'.stopped # "no"
       => /\ loop'.timers = 0
          /\ ~client'.reconnectTimer
          /\ loop.stopped # "no"
               => \A s \in Sockets : socks[s].ready = "none" => socks'[s].ready = "none"]_vars

\* disconnect() was called while a reconnect attempt was connecting; the
\* attempt's socket has failed since, and no timer is pending
NoReconnectAfterDisconnectWitness ==
  /\ loop.stopped = "connecting"
  /\ client.reconnectAttempts > 0
  /\ \A s \in Sockets : socks[s].ready = "none"
  /\ loop.timers = 0

\* C40: at most one reconnect timer is pending at any time, even when a
\* failed connection attempt runs both the close handler and the handler of
\* the rejected connect promise.
OneReconnectTimer == loop.timers <= 1

\* a failed reconnect attempt ran both handlers, and one timer is pending
OneReconnectTimerWitness ==
  /\ loop.doubled
  /\ loop.timers = 1
  /\ client.reconnectAttempts = 2

====
